---- MODULE Spec2Model ----
(***************************************************************************)
(* State-machine model of the recommendation engine                        *)
(* (AIRecommendationEngine, src/client/src/App.js:372-968) and of the      *)
(* recommendation routes (src/server/routes/recommendations.js).           *)
(*                                                                         *)
(* Time is in milliseconds, as Date.now() returns it.  Every handler is    *)
(* an async function: it is split at its awaits into steps, and the steps  *)
(* of different requests interleave the way Node's event loop lets them.   *)
(* The persistence store keeps every field the routes write on the user    *)
(* document (cachedRecommendations, lastRecommendationUpdate,              *)
(* recommendationPreferences).                                             *)
(***************************************************************************)
EXTENDS Integers, Sequences, FiniteSets, TLC

VARIABLES
    now,           \* the wall clock, Date.now()
    ticks,         \* number of clock advances so far (bounds the run)
    openai,        \* this.openai is configured (OPENAI_API_KEY was set)
    userProfiles,  \* this.userProfiles: Map userId -> {profile, timestamp}
    users,         \* the User collection: userId -> user document
    reqs,          \* requests in flight: slot -> request record
    biometrics,    \* the BiometricData collection: userId -> samples
    out,           \* the answer the last step gave to a caller, if it gave one
    prevBuild,     \* history: the last return of buildUserProfile
    invalidated,   \* history: per user, a preferences update completed and no
                   \* GET without refresh has arrived since
    track,         \* which history variables this run records (never changes)
    nut,           \* the nutrition calculator under test (SpecNutrition)
    gen,           \* a category generator under test (SpecGenerators)
    trend,         \* the trend analyzer under test (SpecTrends)
    fit,           \* the profile calculators under test (SpecCalculators)
    auth,          \* the account routes: users, tokens, limiters (SpecAuth)
    overtaken      \* history: GET requests and stored bundles that a
                   \* preferences update has overtaken

vars == <<now, ticks, openai, userProfiles, users, biometrics, reqs, out, prevBuild, invalidated,
         track, nut, gen, trend, fit, auth, overtaken>>

----------------------------------------------------------------------------
(* Bounds *)

MaxTicks == 2

\* request slots: at most this many handlers overlap
Reqs == {"r1", "r2"}

KnownUsers == {"alice", "bob"}
\* an id the User collection has no document for
UnknownUser == "nobody"
UserIds == KnownUsers \cup {UnknownUser}

----------------------------------------------------------------------------
(* Program constants *)

\* App.js:431, the profile cache window
ProfileTTL == 3600000
\* recommendations.js:21, the stored bundle window
BundleTTL == 3600000

\* the clock advances in steps of half a window: after one step a value is
\* aged but inside the window, after two its age is exactly the window
Deltas == {ProfileTTL \div 2}

\* JS null / undefined and a present value, for fields that may be absent
None == <<>>
Some(x) == <<x>>

Types == {"all", "workout", "nutrition", "mindfulness", "goals"}

\* req.query.refresh: absent, or the string the client sent
Absent == "<absent>"
RefreshVals == {Absent, "true", "false"}

----------------------------------------------------------------------------
(* Arithmetic helpers *)

RECURSIVE SumSeq(_)
SumSeq(s) == IF s = <<>> THEN 0 ELSE Head(s) + SumSeq(Tail(s))

\* Math.round(a / b) for a >= 0 and even b > 0: floor(a/b + 1/2)
RoundDiv(a, b) == (a + b \div 2) \div b

\* milliseconds in a day (analyzeRecentActivity: 1000 * 60 * 60 * 24)
DayMs == 1000 * 60 * 60 * 24

----------------------------------------------------------------------------
(* The persistence collaborators *)

\* User.findById: the document, or null
FindById(id) == IF id \in DOMAIN users THEN Some(users[id]) ELSE None

\* BiometricData.getDataRange(userId, thirtyDaysAgo, new Date()) at time t
RECURSIVE InRange(_, _)
InRange(s, t) ==
    IF s = <<>> THEN <<>>
    ELSE IF Head(s).timestamp <= t /\ (t - Head(s).timestamp) \div DayMs < 30
         THEN <<Head(s)>> \o InRange(Tail(s), t)
         ELSE InRange(Tail(s), t)

GetDataRange(id, t) ==
    IF id \in DOMAIN biometrics THEN InRange(biometrics[id], t) ELSE <<>>

----------------------------------------------------------------------------
(* Profile Builder: the pure part *)

RECURSIVE Last7Days(_, _)
\* analyzeRecentActivity: the samples at most 7 days old
Last7Days(s, t) ==
    IF s = <<>> THEN <<>>
    ELSE IF t - Head(s).timestamp <= 7 * DayMs
         THEN <<Head(s)>> \o Last7Days(Tail(s), t)
         ELSE Last7Days(Tail(s), t)

\* calculateAverage(data, 'activity.steps'): an exact fraction num/den, 0 when
\* no sample has the field
CalculateAverage(values) ==
    IF values = <<>> THEN [num |-> 0, den |-> 1]
    ELSE [num |-> SumSeq(values), den |-> Len(values)]

RECURSIVE StepsPresent(_)
\* the values calculateAverage keeps: val != null (a 0 is kept)
StepsPresent(s) ==
    IF s = <<>> THEN <<>>
    ELSE IF Head(s).hasActivity THEN <<Head(s).steps>> \o StepsPresent(Tail(s))
         ELSE StepsPresent(Tail(s))

AnalyzeRecentActivity(data, t) ==
    [averageSteps |-> CalculateAverage(StepsPresent(Last7Days(data, t)))]

\* the profile object of buildUserProfile, built at time t from the user
\* document and the samples
MakeProfile(id, user, data, t) ==
    [userId        |-> id,
     age           |-> user.age,
     gender        |-> user.gender,
     goals         |-> user.fitnessGoals,
     activityLevel |-> user.activityLevel,
     recentActivity |-> AnalyzeRecentActivity(data, t),
     timestamp     |-> t]

\* the cache test with the window written a digit short
ProfileFreshShortWindow(cachedTs, t) == t - cachedTs < 360000

\* the cache test of buildUserProfile: Date.now() - cached.timestamp < 3600000
ProfileFresh(cachedTs, t) == t - cachedTs < ProfileTTL

----------------------------------------------------------------------------
(* Nutrition: calculateBMR, calculateTDEE, the fallback bundle and the      *)
(* generative path.  Numbers with decimals are kept as exact integers:      *)
(* bmr in thousandths of a kcal, tdee and target calories in 1/40000 kcal   *)
(* (every activity multiplier is a multiple of 1/40).                       *)

\* calculateBMR: recentActivity has no averageWeight, so weight is the
\* default 70; height is the constant 170
DefaultWeight == 70
DefaultHeight == 170

CalculateBMR(profile) ==
    IF profile.gender = "male"
    THEN 88362 + 13397 * DefaultWeight + 4799 * DefaultHeight - 5677 * profile.age
    ELSE 447593 + 9247 * DefaultWeight + 3098 * DefaultHeight - 4330 * profile.age

\* the multipliers table, times 40
Multiplier40(activityLevel) ==
    CASE activityLevel = "sedentary"         -> 48
      [] activityLevel = "lightly-active"    -> 55
      [] activityLevel = "moderately-active" -> 62
      [] activityLevel = "very-active"       -> 69
      [] activityLevel = "extremely-active"  -> 76
      [] OTHER                               -> 62

\* calculateTDEE, in 1/40000 kcal
CalculateTDEE(bmr, activityLevel) == bmr * Multiplier40(activityLevel)

\* units of a tdee value per kcal: thousandths times fortieths
TdeeUnit == 1000 * 40

\* getFallbackNutritionRecommendations
GetFallbackNutritionRecommendations(profile) ==
    LET tdee == CalculateTDEE(CalculateBMR(profile), profile.activityLevel)
        avg  == profile.recentActivity.averageSteps
    IN [kind          |-> "fallback",
        dailyCalories |-> RoundDiv(tdee, TdeeUnit),
        macros        |-> [protein |-> RoundDiv(tdee, 16 * TdeeUnit),
                           carbs   |-> RoundDiv(9 * tdee, 80 * TdeeUnit),
                           fat     |-> RoundDiv(tdee, 30 * TdeeUnit)],
        hydrationGoal |-> 2000 + RoundDiv(8 * avg.num, 10000 * avg.den),
        reasoning     |-> "Basic recommendations based on your activity level and goals."]

\* the target of enhanceNutritionRecommendations, in 1/40000 kcal
TargetCalories(profile) ==
    LET tdee == CalculateTDEE(CalculateBMR(profile), profile.activityLevel)
    IN IF "weight-loss" \in profile.goals THEN tdee - 500 * TdeeUnit
       ELSE IF "weight-gain" \in profile.goals THEN tdee + 500 * TdeeUnit
       ELSE tdee

Abs(x) == IF x < 0 THEN -x ELSE x

\* enhanceNutritionRecommendations on a parsed response whose dailyCalories
\* is the integer c: c is kept when within 300 of the target, else replaced
\* by the target.  dailyCalories40 is the value in 1/40000 kcal.
EnhanceNutritionRecommendations(c, profile) ==
    LET target == TargetCalories(profile)
    IN [kind            |-> "ai",
        dailyCalories40 |-> IF Abs(c * TdeeUnit - target) > 300 * TdeeUnit
                            THEN target ELSE c * TdeeUnit]

\* what the generative service does on one call
AiCalories == {2000}
AiOutcomes == {[kind |-> "raises", calories |-> 0],
               [kind |-> "unparsable", calories |-> 0]}
              \cup {[kind |-> "json", calories |-> c] : c \in AiCalories}

\* the category is dropped when the generative path fails
GenerateNutritionDropsOnFailure(profile, configured, ai) ==
    IF ~configured THEN GetFallbackNutritionRecommendations(profile)
    ELSE IF ai.kind = "json" THEN EnhanceNutritionRecommendations(ai.calories, profile)
    ELSE [kind |-> "empty"]

\* generateNutritionRecommendations(userProfile): configured is this.openai,
\* ai the outcome of the completion call when it is made
GenerateNutritionRecommendations(profile, configured, ai) ==
    IF ~configured THEN GetFallbackNutritionRecommendations(profile)
    ELSE IF ai.kind = "json" THEN EnhanceNutritionRecommendations(ai.calories, profile)
    ELSE GetFallbackNutritionRecommendations(profile)

----------------------------------------------------------------------------
(* The main state machine: engine calls and recommendation routes *)

\* one slot shared by every key: the entry is written under all of them
CacheSetShared(map, key, entry) == [k \in DOMAIN map \cup {key} |-> entry]

\* Map.prototype.set on this.userProfiles
CacheSet(map, key, entry) ==
    [k \in DOMAIN map \cup {key} |-> IF k = key THEN entry ELSE map[k]]

\* buildUserProfile's cache test: the entry is there and young enough
CacheHit(id, t) ==
    id \in DOMAIN userProfiles /\ ProfileFresh(userProfiles[id].timestamp, t)

\* the lookup result is never taken for missing
UserMissingNever(found) == FALSE

\* generateRecommendations line 386: if (!user) throw
UserMissing(found) == found = None

\* JavaScript truthiness of a query-string value: absent and '' are falsy,
\* every other string (also 'false') is truthy
Truthy(q) == q \notin {Absent, ""}

\* GET /api/recommendations line 16: if (!refresh)
UseCache(refresh) == ~Truthy(refresh)

\* GET /api/recommendations line 21
BundleFresh(lastUpdate, t) ==
    lastUpdate # None /\ t - lastUpdate[1] < BundleTTL

\* the keys generateRecommendations fills for a type (lines 393-407)
CategoriesOf(type) ==
    (IF type \in {"all", "workout"} THEN {"workouts"} ELSE {})
    \cup (IF type \in {"all", "nutrition"} THEN {"nutrition"} ELSE {})
    \cup (IF type \in {"all", "mindfulness"} THEN {"mindfulness"} ELSE {})
    \cup (IF type \in {"all", "goals"} THEN {"goals"} ELSE {})

\* one category result: whose profile it was computed from, and for
\* nutrition the computed bundle
CategoryResult(cat, profile, ai) ==
    [profileOf |-> profile.userId,
     value     |-> IF cat = "nutrition"
                   THEN GenerateNutritionRecommendations(profile, openai, ai)
                   ELSE [kind |-> cat]]

\* the object generateRecommendations returns (lines 409-418)
MakeBundle(id, type, profile, ai, t) ==
    [userId          |-> id,
     timestamp       |-> t,
     recommendations |-> [c \in CategoriesOf(type) |-> CategoryResult(c, profile, ai)],
     userProfile     |-> [goals |-> profile.goals]]

\* user.cachedRecommendations || {} (line 26)
OrEmpty(cached) == IF cached = None THEN <<>> ELSE cached[1]

\* the type of a request that is drawn when the categories are generated
NoType == "<any>"

\* no answer was given
NoResp ==
    [op |-> "none", user |-> UnknownUser, type |-> NoType, refresh |-> Absent,
     force |-> FALSE, at |-> 0, resp |-> [status |-> "none"]]

\* a request record: the operation, its arguments and locals, and where the
\* handler stands.  Nothing reads the type argument before lines 393-407:
\* it is NoType in a request whose type is drawn only there.
\* since is the time buildUserProfile was called, while it is running.
IdleReq ==
    [op |-> "none", user |-> UnknownUser, type |-> NoType, refresh |-> Absent,
     force |-> FALSE, pc |-> "idle", since |-> 0, profile |-> None,
     bundle |-> None]

NewReq(op, id, refresh, force) ==
    [op |-> op, user |-> id, type |-> NoType, refresh |-> refresh,
     force |-> force, pc |-> "idle", since |-> 0, profile |-> None,
     bundle |-> None]

Free(r) == reqs[r].pc = "idle"

\* the request in slot r is answered at time t: the slot is free again
Answer(r, req, t, resp) ==
    /\ reqs' = [reqs EXCEPT ![r] = IdleReq]
    /\ out' = [op |-> req.op, user |-> req.user, type |-> req.type,
               refresh |-> req.refresh, force |-> req.force, at |-> t,
               resp |-> resp]

\* the request in slot r goes on as req, unanswered
Continue(r, req) ==
    /\ reqs' = [reqs EXCEPT ![r] = req]
    /\ out' = NoResp

\* buildUserProfile, called at time t without a forced refresh, returns
\* profile now; a forced call is not recorded
Returned(req, profile, t) ==
    IF req.force \/ "calls" \notin track THEN None
    ELSE Some([user |-> req.user, profile |-> profile, called |-> t,
               returned |-> now])

\* a preferences update completed for id (v = TRUE), or a GET without refresh
\* arrived for it (v = FALSE)
Invalidated(id, v) ==
    IF "updates" \in track THEN [invalidated EXCEPT ![id] = v] ELSE invalidated

ErrorResp(msg) == [status |-> "error", message |-> msg]

\* what the catch of the calling layer makes of a raised error: the engine
\* rethrows it, the route answers 500 (recommendations.js:49-55)
Failure(req, msg) ==
    IF req.op = "get" THEN [status |-> 500, message |-> msg] ELSE ErrorResp(msg)

engineVars == <<openai, biometrics, track, nut, gen, trend, fit, auth, overtaken>>

\* the engine stamps the document of the user it built a profile for
EngineStamps(us, id) ==
    IF id \in DOMAIN us
    THEN [us EXCEPT ![id].lastRecommendationUpdate = Some(now)]
    ELSE us

\* the User collection after the engine worked for id: the document is read
\* (findById, getAge, calculateBMI) and no save or update is issued
EngineLeaves(us, id) == us

\* the clock advances
Tick ==
    /\ ticks < MaxTicks
    /\ \E d \in Deltas : now' = now + d
    /\ ticks' = ticks + 1
    /\ out' = NoResp
    /\ UNCHANGED <<openai, userProfiles, users, biometrics, reqs, prevBuild,
                   invalidated, track, nut, gen, trend, fit, auth, overtaken>>

\* buildUserProfile(userId) is called directly; forceRefresh is the option the
\* caller passes.  Lines 429-434 run synchronously in the call.
CallBuild(r, id, force) ==
    /\ Free(r)
    /\ LET req == NewReq("build", id, Absent, force)
       IN IF CacheHit(id, now)
          THEN /\ Answer(r, req, now, [status  |-> "ok",
                                       profile |-> userProfiles[id].profile,
                                       fetched |-> FALSE])
               /\ prevBuild' = Returned(req, userProfiles[id].profile, now)
          ELSE /\ Continue(r, [req EXCEPT !.pc = "build", !.since = now])
               /\ UNCHANGED prevBuild
    /\ users' = EngineLeaves(users, id)
    /\ UNCHANGED <<now, ticks, userProfiles, invalidated, engineVars>>

\* a failing build leaves a partial entry, stamped with the time of failure
CacheOnRaiseStoresPartial(map, id, t) ==
    CacheSet(map, id, [profile |-> [userId |-> id], timestamp |-> t])

\* this.userProfiles after a build for id raised at time t: the only set is
\* line 469, after everything that can raise, and the catch of lines 473-476
\* rethrows
CacheOnRaise(map, id, t) == map

\* lines 436-471: the fetches return, the profile is assembled and cached;
\* or a fetch or a computation raises and the catch rethrows (473-476).
\* Lines 453-469 run without an await: both Date.now() read the same clock.
FinishBuild(r, outcome) ==
    /\ reqs[r].pc = "build"
    /\ LET req   == reqs[r]
           id    == req.user
           found == FindById(id)
       IN IF found = None \/ outcome = "raise"
          THEN /\ Answer(r, req, now,
                         Failure(req, IF found = None THEN "TypeError" ELSE "raised"))
               /\ prevBuild' = None
               /\ userProfiles' = CacheOnRaise(userProfiles, id, now)
          ELSE LET profile == MakeProfile(id, found[1], GetDataRange(id, now), now)
                   entry   == [profile |-> profile, timestamp |-> now]
               IN /\ userProfiles' = CacheSet(userProfiles, id, entry)
                  /\ prevBuild' = Returned(req, profile, req.since)
                  /\ IF req.op = "build"
                     THEN Answer(r, req, now, [status  |-> "ok",
                                               profile |-> profile,
                                               fetched |-> TRUE])
                     ELSE Continue(r, [req EXCEPT !.pc = "cats", !.since = 0,
                                                  !.profile = Some(profile)])
    /\ users' = EngineLeaves(users, reqs[r].user)
    /\ UNCHANGED <<now, ticks, invalidated, engineVars>>

\* generateRecommendations lines 385-389 for request record req: the user
\* lookup, then buildUserProfile's cache test
GenFind(r, req) ==
    LET id == req.user
    IN IF UserMissing(FindById(id))
       THEN /\ Answer(r, req, now, Failure(req, "User not found"))
            /\ UNCHANGED prevBuild
       ELSE IF CacheHit(id, now)
       THEN /\ Continue(r, [req EXCEPT !.pc = "cats",
                                       !.profile = Some(userProfiles[id].profile)])
            /\ prevBuild' = Returned(req, userProfiles[id].profile, now)
       ELSE /\ Continue(r, [req EXCEPT !.pc = "build", !.since = now])
            /\ UNCHANGED prevBuild

\* generateRecommendations(userId, type) is called directly
CallGenerate(r, id) ==
    /\ Free(r)
    /\ GenFind(r, NewReq("generate", id, Absent, FALSE))
    /\ users' = EngineLeaves(users, id)
    /\ UNCHANGED <<now, ticks, userProfiles, invalidated, engineVars>>

\* lines 391-418: the category generators of the requested type run and the
\* bundle is returned
GenCats(r, type, ai) ==
    /\ reqs[r].pc = "cats"
    /\ reqs[r].type \in {NoType, type}
    /\ LET req    == reqs[r]
           bundle == MakeBundle(req.user, type, req.profile[1], ai, now)
       IN IF req.op = "get"
          THEN Continue(r, [req EXCEPT !.pc = "store", !.profile = None,
                                       !.bundle = Some(bundle)])
          ELSE Answer(r, req, now, [status |-> "ok", bundle |-> bundle])
    /\ users' = EngineLeaves(users, reqs[r].user)
    /\ UNCHANGED <<now, ticks, userProfiles, prevBuild, invalidated, engineVars>>

\* GET /api/recommendations arrives for an authenticated user: lines 13-29
CallGet(r, id, type, refresh) ==
    /\ Free(r)
    /\ id \in DOMAIN users
    /\ LET req == [NewReq("get", id, refresh, FALSE) EXCEPT !.type = type]
           doc == users[id]
       IN IF UseCache(refresh) /\ BundleFresh(doc.lastRecommendationUpdate, now)
          THEN Answer(r, req, now,
                      [status |-> 200, cached |-> TRUE,
                       lastUpdate |-> doc.lastRecommendationUpdate,
                       recommendations |-> OrEmpty(doc.cachedRecommendations)])
          ELSE Continue(r, [req EXCEPT !.pc = "find"])
    /\ invalidated' = IF refresh \in {Absent, "false"}
                      THEN Invalidated(id, FALSE) ELSE invalidated
    /\ UNCHANGED <<now, ticks, userProfiles, users, prevBuild, engineVars>>

\* GET /api/recommendations line 32: the engine is invoked (refresh is not
\* read again)
GetGenerate(r) ==
    /\ reqs[r].pc = "find"
    /\ GenFind(r, [reqs[r] EXCEPT !.refresh = Absent])
    /\ users' = EngineLeaves(users, reqs[r].user)
    /\ UNCHANGED <<now, ticks, userProfiles, invalidated, engineVars>>

\* history: the preferences of id are saved (line 334) while these GET
\* requests of id hold a profile or a bundle built from the document as it
\* was before
PrefsSaved(id) ==
    IF "updates" \notin track THEN overtaken
    ELSE [overtaken EXCEPT !.pre = @ \cup
             {r \in Reqs : /\ reqs[r].op = "get"
                           /\ reqs[r].user = id
                           /\ reqs[r].pc \in {"cats", "store"}}]

\* history: the update of id completed (line 339) while those requests are
\* still running; the stored bundle was cleared
UpdateCompleted(id) ==
    IF "updates" \notin track THEN overtaken
    ELSE [overtaken EXCEPT
            !.late = @ \cup {r \in overtaken.pre : reqs[r].user = id},
            !.stored = @ \ {id}]

\* history: the GET in slot r ends at lines 39-42; when its update went
\* through, the stored bundle of id is one the update had overtaken, or not
BundleStored(r, id, ok) ==
    IF "updates" \notin track THEN overtaken
    ELSE [pre    |-> overtaken.pre \ {r},
          late   |-> overtaken.late \ {r},
          stored |-> IF ~ok THEN overtaken.stored
                     ELSE IF r \in overtaken.late THEN overtaken.stored \cup {id}
                     ELSE overtaken.stored \ {id}]

\* the update writes the bundle and leaves the timestamp for a second write
GetStoreTorn(r, ok) ==
    /\ reqs[r].pc = "store"
    /\ LET req == reqs[r]
       IN IF ok
          THEN /\ users' = [users EXCEPT ![req.user].cachedRecommendations =
                                            Some(req.bundle[1].recommendations)]
               /\ Answer(r, req, now, [status |-> 200, cached |-> FALSE,
                                       bundle |-> req.bundle[1]])
          ELSE /\ Answer(r, req, now, Failure(req, "update rejected"))
               /\ UNCHANGED users
    /\ overtaken' = BundleStored(r, reqs[r].user, ok)
    /\ UNCHANGED <<now, ticks, openai, userProfiles, biometrics, prevBuild,
                   invalidated, track, nut, gen, trend, fit, auth>>

\* GET /api/recommendations lines 39-47: findByIdAndUpdate, then the answer;
\* a rejected update ends in the catch (500)
GetStore(r, ok) ==
    /\ reqs[r].pc = "store"
    /\ LET req == reqs[r]
       IN IF ok
          THEN /\ users' = [users EXCEPT ![req.user] =
                      [@ EXCEPT !.cachedRecommendations = Some(req.bundle[1].recommendations),
                                !.lastRecommendationUpdate = Some(now)]]
               /\ Answer(r, req, now, [status |-> 200, cached |-> FALSE,
                                       bundle |-> req.bundle[1]])
          ELSE /\ Answer(r, req, now, Failure(req, "update rejected"))
               /\ UNCHANGED users
    /\ overtaken' = BundleStored(r, reqs[r].user, ok)
    /\ UNCHANGED <<now, ticks, openai, userProfiles, biometrics, prevBuild,
                   invalidated, track, nut, gen, trend, fit, auth>>

PrefVals == {"p1"}

\* POST /api/recommendations/preferences lines 313-334: the document is
\* loaded, the preferences set and saved; a rejected save ends in the catch
CallPrefs(r, id, prefs, ok) ==
    /\ Free(r)
    /\ id \in DOMAIN users
    /\ LET req == NewReq("prefs", id, Absent, FALSE)
       IN IF ok
          THEN /\ users' = [users EXCEPT ![id].recommendationPreferences = Some(prefs)]
               /\ Continue(r, [req EXCEPT !.pc = "clear"])
          ELSE /\ Answer(r, req, now, [status |-> 500, message |-> "save rejected"])
               /\ UNCHANGED users
    /\ overtaken' = IF ok THEN PrefsSaved(id) ELSE overtaken
    /\ UNCHANGED <<now, ticks, openai, userProfiles, biometrics, prevBuild,
                   invalidated, track, nut, gen, trend, fit, auth>>

\* POST /api/recommendations/preferences lines 336-344: the cached bundle and
\* its timestamp are set to null and saved, then the answer
PrefsClear(r, ok) ==
    /\ reqs[r].pc = "clear"
    /\ LET req == reqs[r]
       IN IF ok
          THEN /\ users' = [users EXCEPT ![req.user] =
                      [@ EXCEPT !.cachedRecommendations = None,
                                !.lastRecommendationUpdate = None]]
               /\ Answer(r, req, now, [status |-> 200, message |-> "updated"])
               /\ invalidated' = Invalidated(req.user, TRUE)
          ELSE /\ Answer(r, req, now, [status |-> 500, message |-> "save rejected"])
               /\ UNCHANGED <<users, invalidated>>
    /\ overtaken' = IF ok THEN UpdateCompleted(reqs[r].user) ELSE overtaken
    /\ UNCHANGED <<now, ticks, openai, userProfiles, biometrics, prevBuild,
                   track, nut, gen, trend, fit, auth>>

----------------------------------------------------------------------------
(* Initial state and specification *)

UserDoc(age, gender, goals, level) ==
    [age |-> age, gender |-> gender, fitnessGoals |-> goals,
     activityLevel |-> level,
     cachedRecommendations |-> None,
     lastRecommendationUpdate |-> None,
     recommendationPreferences |-> None]

InitUsers ==
    [u \in KnownUsers |->
        IF u = "alice" THEN UserDoc(30, "female", {"weight-loss"}, "sedentary")
        ELSE UserDoc(45, "male", {"muscle-gain"}, "very-active")]

\* samples as getDataRange returns them, newest first
InitBiometrics ==
    [u \in KnownUsers |->
        IF u = "alice" THEN <<>>
        ELSE << [timestamp |-> 0 - DayMs, hasActivity |-> TRUE, steps |-> 12000],
                [timestamp |-> 0 - 2 * DayMs, hasActivity |-> TRUE, steps |-> 13001] >>]

NutOff == [phase |-> "off"]
GenOff == [pc |-> "off"]
TrendOff == [phase |-> "off"]
FitOff == [phase |-> "off"]
AuthOff == [phase |-> "off"]
NoneOvertaken == [pre |-> {}, late |-> {}, stored |-> {}]

InitMain ==
    /\ now = 0
    /\ ticks = 0
    /\ openai \in BOOLEAN
    /\ userProfiles = <<>>
    /\ users = InitUsers
    /\ biometrics = InitBiometrics
    /\ reqs = [r \in Reqs |-> IdleReq]
    /\ out = NoResp
    /\ prevBuild = None
    /\ invalidated = [u \in KnownUsers |-> FALSE]

\* the engine called directly: profile builds and generations, of two known
\* users and of an unknown id, overlapping
Init == InitMain /\ track = {"calls"} /\ nut = NutOff /\ gen = GenOff /\ trend = TrendOff /\ fit = FitOff /\ auth = AuthOff /\ overtaken = NoneOvertaken

Next ==
    \/ Tick
    \/ \E r \in Reqs, id \in UserIds, force \in BOOLEAN : CallBuild(r, id, force)
    \/ \E r \in Reqs, outcome \in {"ok", "raise"} : FinishBuild(r, outcome)
    \/ \E r \in Reqs, id \in UserIds : CallGenerate(r, id)
    \/ \E r \in Reqs, type \in Types, ai \in AiOutcomes : GenCats(r, type, ai)

Spec == Init /\ [][Next]_vars

----------------------------------------------------------------------------
(* Properties of the profile cache and of generateRecommendations (Spec)    *)

\* one hour in milliseconds, as the claims state the window
Hour == 60 * 60 * 1000

\* the user's cache entry exists and is less than one hour old
EntryYoung(id) ==
    id \in DOMAIN userProfiles /\ now - userProfiles[id].timestamp < Hour

\* this step is a direct buildUserProfile call that was answered at once
AnsweredAtCall == reqs' = reqs /\ out'.op = "build"

\* C1, as the claim states it: two calls of buildUserProfile for the same
\* user, the second made after the first returned and less than one hour
\* after the first was made, with no forced refresh and no failure between
\* them, return the same profile.
C1_CallsWithinHourIdentical ==
    [][(/\ prevBuild # None
        /\ prevBuild' # None
        /\ prevBuild'[1].user = prevBuild[1].user
        /\ prevBuild'[1].called > prevBuild[1].returned
        /\ prevBuild'[1].called - prevBuild[1].called < Hour)
       => prevBuild'[1].profile = prevBuild[1].profile]_vars

\* C1, amended: a buildUserProfile call without forced refresh, made while
\* the user's cache entry is less than one hour old, returns the profile of
\* that entry (same build timestamp), starts no fetch of the user record or
\* the samples, and leaves the cache as it is.
C1_YoungEntryServed ==
    [][\A id \in UserIds : EntryYoung(id) =>
          /\ (AnsweredAtCall /\ out'.user = id /\ ~out'.force)
                => /\ out'.resp.status = "ok"
                   /\ out'.resp.profile = userProfiles[id].profile
                   /\ out'.resp.profile.timestamp = userProfiles[id].profile.timestamp
                   /\ ~out'.resp.fetched
                   /\ userProfiles' = userProfiles
          /\ \A r \in Reqs :
                (reqs[r].pc = "idle" /\ reqs'[r].pc # "idle"
                 /\ reqs'[r].user = id /\ ~reqs'[r].force)
                => /\ reqs'[r].pc = "cats"
                   /\ reqs'[r].profile = Some(userProfiles[id].profile)
                   /\ userProfiles' = userProfiles]_vars

\* a call was answered from an entry built earlier
C1_Witness ==
    /\ out.op = "build"
    /\ ~out.force
    /\ out.resp.status = "ok"
    /\ ~out.resp.fetched
    /\ out.at > out.resp.profile.timestamp

\* C2: a profile build requested with forceRefresh = true rebuilds from the
\* store and returns a profile with a new build timestamp (the time of the
\* answer), which the cache then holds, also when a young entry exists.
C2_ForcedBuildRebuilds ==
    (out.op = "build" /\ out.force /\ out.resp.status = "ok")
    => /\ out.resp.fetched
       /\ out.resp.profile.timestamp = out.at
       /\ userProfiles[out.user].profile = out.resp.profile

\* C3: a cached profile is never returned at an age of one hour or more, and
\* a buildUserProfile call made when the entry was that old ends with the
\* entry replaced by one carrying a new timestamp.
C3_StaleEntryReplaced ==
    [][/\ (AnsweredAtCall /\ out'.resp.status = "ok" /\ ~out'.resp.fetched)
            => out'.at - out'.resp.profile.timestamp < Hour
       /\ \A r \in Reqs :
            LET id == reqs[r].user
            IN (/\ reqs[r].pc = "build"
                /\ reqs'[r].pc # "build"
                /\ id \in DOMAIN userProfiles
                /\ reqs[r].since - userProfiles[id].timestamp >= Hour)
               => userProfiles'[id].timestamp > userProfiles[id].timestamp
      ]_vars

\* C4: generateRecommendations for an id the store has no user for fails
\* with 'User not found', goes no further (no profile build, no category,
\* no bundle) and leaves the profile cache as it is.
C4_UnknownUserNotFound ==
    [][/\ (out'.op = "generate" /\ out'.user \notin DOMAIN users)
            => /\ out'.resp = [status |-> "error", message |-> "User not found"]
               /\ reqs' = reqs
               /\ userProfiles' = userProfiles
       /\ \A r \in Reqs :
            reqs'[r].op = "generate" => reqs'[r].user \in DOMAIN users
      ]_vars

\* generateRecommendations was called for the unknown id and failed
C4_Witness ==
    /\ out.op = "generate"
    /\ out.user = UnknownUser
    /\ out.resp.status = "error"

\* C5: for a user that exists, generateRecommendations never fails: every
\* answer it gives is a bundle.
C5_ExistingUserNeverFails ==
    (out.op = "generate" /\ out.user \in DOMAIN users)
    => out.resp.status = "ok"

----------------------------------------------------------------------------
(* The routes *)

\* the types and generative outcomes the route requests are run with
RouteTypes == {"all", "nutrition", "workout"}
RouteAi == {a \in AiOutcomes : a.kind \in {"raises", "json"}}

\* the routes, which call the engine; who[r] is the set of users whose
\* requests slot r carries
RouteSteps(who, asked, types, ais) ==
    \/ Tick
    \/ \E r \in Reqs : \E id \in who[r], type \in asked, refresh \in RefreshVals :
           CallGet(r, id, type, refresh)
    \/ \E r \in Reqs : GetGenerate(r)
    \/ \E r \in Reqs, outcome \in {"ok", "raise"} : FinishBuild(r, outcome)
    \/ \E r \in Reqs, type \in types, ai \in ais : GenCats(r, type, ai)
    \/ \E r \in Reqs, ok \in BOOLEAN : GetStore(r, ok)
    \/ \E r \in Reqs : \E id \in who[r], prefs \in PrefVals, ok \in BOOLEAN :
           CallPrefs(r, id, prefs, ok)
    \/ \E r \in Reqs, ok \in BOOLEAN : PrefsClear(r, ok)

\* concurrent requests of one user
NextRoutes == RouteSteps([r \in Reqs |-> {"alice"}], {NoType}, RouteTypes, RouteAi)

InitRoutes == InitMain /\ track = {"updates"} /\ nut = NutOff /\ gen = GenOff /\ trend = TrendOff /\ fit = FitOff /\ auth = AuthOff /\ overtaken = NoneOvertaken

SpecRoutes == InitRoutes /\ [][NextRoutes]_vars

\* requests of one user that keep the type they ask for
NextTypes ==
    RouteSteps([r \in Reqs |-> {"alice"}], RouteTypes, RouteTypes,
               {a \in AiOutcomes : a.kind = "raises"})

InitTypes ==
    /\ InitMain
    /\ openai = FALSE
    /\ track = {}
    /\ nut = NutOff
    /\ gen = GenOff
    /\ trend = TrendOff
    /\ fit = FitOff
    /\ auth = AuthOff
    /\ overtaken = NoneOvertaken

SpecTypes == InitTypes /\ [][NextTypes]_vars

\* concurrent requests of two users, one slot each
NextTwoUsers ==
    \/ RouteSteps([r \in Reqs |-> IF r = "r1" THEN {"alice"} ELSE {"bob"}],
                  {NoType}, {"all"}, {a \in AiOutcomes : a.kind = "raises"})
    \/ \E id \in UserIds, force \in BOOLEAN : CallBuild("r1", id, force)
    \/ \E id \in UserIds : CallGenerate("r1", id)

InitTwoUsers == InitMain /\ openai = FALSE /\ track = {} /\ nut = NutOff /\ gen = GenOff /\ trend = TrendOff /\ fit = FitOff /\ auth = AuthOff /\ overtaken = NoneOvertaken

SpecTwoUsers == InitTwoUsers /\ [][NextTwoUsers]_vars

----------------------------------------------------------------------------
(* Properties of the routes (SpecRoutes, SpecTwoUsers)                      *)

\* the user's stored bundle is less than one hour old
StoredYoung(id) ==
    /\ users[id].lastRecommendationUpdate # None
    /\ now - users[id].lastRecommendationUpdate[1] < Hour

\* the query does not ask for a refresh: the parameter is absent or 'false'
NoRefreshAsked(q) == q \in {Absent, "false"}

\* C8: a GET /api/recommendations that asks for no refresh (refresh absent
\* or refresh=false), arriving while the user's stored bundle is less than
\* one hour old, is answered at once with that bundle and cached = true; the
\* engine is not invoked and the stored bundle and timestamp stay.
C8_NoRefreshServesStored ==
    [][\A r \in Reqs :
          /\ (reqs[r].pc = "idle" /\ reqs'[r].pc # "idle" /\ reqs'[r].op = "get"
              /\ NoRefreshAsked(reqs'[r].refresh))
                => ~StoredYoung(reqs'[r].user)
          /\ (reqs' = reqs /\ out'.op = "get")
                => /\ out'.resp.status = 200
                   /\ out'.resp.cached
                   /\ out'.resp.recommendations =
                          users[out'.user].cachedRecommendations[1]
                   /\ users' = users
      ]_vars

\* C9: when a preferences update completes for a user, the stored bundle and
\* its timestamp are both cleared, and the next GET /api/recommendations
\* without refresh is not answered from a stored bundle (it regenerates and
\* answers cached = false).
C9_UpdateInvalidatesBundle ==
    [][\A id \in KnownUsers :
          /\ (~invalidated[id] /\ invalidated'[id])
                => /\ users'[id].cachedRecommendations = None
                   /\ users'[id].lastRecommendationUpdate = None
          /\ (invalidated[id] /\ reqs' = reqs /\ out'.op = "get" /\ out'.user = id)
                => ~out'.resp.cached
      ]_vars

\* the stored bundle of user u with its timestamp, in the collection us
StoredPair(us, u) ==
    <<us[u].cachedRecommendations, us[u].lastRecommendationUpdate>>

\* C11: under every interleaving of requests of one user, each cache holds
\* nothing or one complete value written by a single request with that
\* request's timestamp: every write puts exactly the writer's value and the
\* time of its write (last write wins), the bundle and its timestamp are
\* present or absent together, and a reader gets a value and a timestamp
\* that were stored together.
C11_CachesWrittenWhole ==
    [][\A u \in KnownUsers :
          /\ StoredPair(users', u) # StoredPair(users, u)
                => \E r \in Reqs :
                      /\ reqs[r].user = u
                      /\ reqs'[r] # reqs[r]
                      /\ \/ /\ reqs[r].pc = "store"
                            /\ StoredPair(users', u) =
                                  <<Some(reqs[r].bundle[1].recommendations), Some(now)>>
                         \/ /\ reqs[r].pc = "clear"
                            /\ StoredPair(users', u) = <<None, None>>
          /\ (users'[u].cachedRecommendations = None)
                <=> (users'[u].lastRecommendationUpdate = None)
          /\ (u \in DOMAIN userProfiles'
              /\ (u \notin DOMAIN userProfiles \/ userProfiles'[u] # userProfiles[u]))
                => \E r \in Reqs :
                      /\ reqs[r].user = u
                      /\ reqs[r].pc = "build"
                      /\ reqs'[r].profile = Some(userProfiles'[u].profile)
                      /\ userProfiles'[u].profile.userId = u
                      /\ userProfiles'[u].timestamp = now
          /\ (reqs' = reqs /\ out'.op = "get" /\ out'.user = u)
                => <<Some(out'.resp.recommendations), out'.resp.lastUpdate>>
                      = StoredPair(users, u)
          /\ \A r \in Reqs :
                (reqs[r].pc = "find" /\ reqs'[r].pc = "cats" /\ reqs[r].user = u)
                => reqs'[r].profile = Some(userProfiles[u].profile)
      ]_vars

\* a GET has just stored its bundle while another GET of the same user,
\* which generated a different bundle before that, is about to store
C11_Witness ==
    /\ out.op = "get"
    /\ out.resp.status = 200
    /\ ~out.resp.cached
    /\ \E r \in Reqs :
          /\ reqs[r].pc = "store"
          /\ reqs[r].user = out.user
          /\ users[out.user].lastRecommendationUpdate # None
          /\ reqs[r].bundle[1].timestamp <= users[out.user].lastRecommendationUpdate[1]
          /\ Some(reqs[r].bundle[1].recommendations) # users[out.user].cachedRecommendations

\* the profile-cache entry or the stored bundle of user b changes in the step
CacheChanged(b) ==
    \/ (b \in DOMAIN userProfiles') # (b \in DOMAIN userProfiles)
    \/ (b \in DOMAIN userProfiles /\ b \in DOMAIN userProfiles'
        /\ userProfiles'[b] # userProfiles[b])
    \/ (b \in DOMAIN users
        /\ \/ users'[b].cachedRecommendations # users[b].cachedRecommendations
           \/ users'[b].lastRecommendationUpdate # users[b].lastRecommendationUpdate)

\* every category result of recs was computed from a profile of user a
BuiltFor(recs, a) == \A c \in DOMAIN recs : recs[c].profileOf = a

\* C10: cache entries are per user.  The profile-cache entry or stored bundle
\* of a user changes only in a step of an operation running for that user,
\* and a profile or bundle returned for a user was built for that user.
C10_PerUserIsolation ==
    [][/\ \A b \in UserIds :
            CacheChanged(b)
            => \E r \in Reqs : /\ reqs[r].pc # "idle"
                               /\ reqs[r].user = b
                               /\ reqs'[r] # reqs[r]
       /\ (out'.op = "build" /\ out'.resp.status = "ok")
            => out'.resp.profile.userId = out'.user
       /\ (out'.op = "generate" /\ out'.resp.status = "ok")
            => /\ out'.resp.bundle.userId = out'.user
               /\ BuiltFor(out'.resp.bundle.recommendations, out'.user)
       /\ (out'.op = "get" /\ out'.resp.status = 200)
            => IF out'.resp.cached
               THEN BuiltFor(out'.resp.recommendations, out'.user)
               ELSE /\ out'.resp.bundle.userId = out'.user
                    /\ BuiltFor(out'.resp.bundle.recommendations, out'.user)
      ]_vars

\* both users have a cache entry and a stored bundle, and a GET was just
\* answered from a stored bundle
C10_Witness ==
    /\ KnownUsers \subseteq DOMAIN userProfiles
    /\ \A u \in KnownUsers : users[u].cachedRecommendations # None
    /\ out.op = "get"
    /\ out.resp.status = 200
    /\ out.resp.cached

----------------------------------------------------------------------------
(* The nutrition generator on its own: every profile of the input sets,     *)
(* every state of the generative service                                   *)

NutAges == {18, 30, 45, 70}
NutGenders == {"male", "female", "other", "prefer-not-to-say"}
NutGoals == {"weight-loss", "weight-gain", "muscle-gain"}
NutLevels == {"sedentary", "lightly-active", "moderately-active",
              "very-active", "extremely-active"}
NutSteps == {[num |-> 0, den |-> 1], [num |-> 25001, den |-> 2]}

NutProfiles ==
    {[userId |-> "alice", age |-> a, gender |-> g, goals |-> gs,
      activityLevel |-> l, recentActivity |-> [averageSteps |-> st],
      timestamp |-> 0] :
        a \in NutAges, g \in NutGenders, gs \in SUBSET NutGoals,
        l \in NutLevels, st \in NutSteps}

InitNutrition ==
    /\ InitMain
    /\ track = {}
    /\ gen = GenOff
    /\ trend = TrendOff /\ fit = FitOff /\ auth = AuthOff /\ overtaken = NoneOvertaken
    /\ \E p \in NutProfiles, a \in AiOutcomes :
          nut = [phase |-> "input", profile |-> p, ai |-> a, result |-> None]

\* generateNutritionRecommendations is called on the profile
NutGenerate ==
    /\ nut.phase = "input"
    /\ nut' = [nut EXCEPT !.phase = "done",
                          !.result = Some(GenerateNutritionRecommendations(
                                              nut.profile, openai, nut.ai))]
    /\ UNCHANGED <<now, ticks, openai, userProfiles, users, biometrics, reqs,
                   out, prevBuild, invalidated, track, gen, trend, fit, auth, overtaken>>

NextNutrition == NutGenerate

SpecNutrition == InitNutrition /\ [][NextNutrition]_vars

----------------------------------------------------------------------------
(* Properties of the nutrition generator (SpecNutrition)                    *)

\* the generative source is unconfigured, raises, or answers text that is
\* not JSON
SourceUnavailable == ~openai \/ nut.ai.kind \in {"raises", "unparsable"}

\* tdee of the profile under test, in 1/40000 kcal
NutTdee == CalculateTDEE(CalculateBMR(nut.profile), nut.profile.activityLevel)

\* n is x / d rounded to the nearest integer
IsRounded(n, x, d) == 2 * Abs(n * d - x) <= d

\* C6: when the generative source is unavailable, the nutrition generator
\* returns the fallback bundle: dailyCalories is tdee rounded, and the macros
\* in grams are 25% of tdee / 4 (protein), 45% / 4 (carbs) and 30% / 9 (fat),
\* rounded; the result is never empty or missing.
C6_FallbackWhenUnavailable ==
    (nut.phase = "done" /\ SourceUnavailable)
    => /\ nut.result # None
       /\ nut.result[1].kind = "fallback"
       /\ IsRounded(nut.result[1].dailyCalories, NutTdee, TdeeUnit)
       /\ IsRounded(nut.result[1].macros.protein, NutTdee, 16 * TdeeUnit)
       /\ IsRounded(nut.result[1].macros.carbs, 9 * NutTdee, 80 * TdeeUnit)
       /\ IsRounded(nut.result[1].macros.fat, NutTdee, 30 * TdeeUnit)

\* the service was configured, answered text that is not JSON, and the
\* fallback bundle came back
C6_Witness ==
    /\ nut.phase = "done"
    /\ openai
    /\ nut.ai.kind = "unparsable"
    /\ nut.result[1].kind = "fallback"

\* C7: for a profile whose goals contain weight-loss, when the generative
\* source is unavailable, dailyCalories of the fallback bundle is tdee minus
\* 500 (rounded).
C7_WeightLossFallbackDeficit ==
    (nut.phase = "done" /\ SourceUnavailable /\ "weight-loss" \in nut.profile.goals)
    => IsRounded(nut.result[1].dailyCalories + 500, NutTdee, TdeeUnit)

----------------------------------------------------------------------------
(* The workout generator: generateWorkoutRecommendations, split at its     *)
(* awaits.  A candidate is [id, score]: score is its intrinsic score in    *)
(* hundredths; weights are in tenths.  The three source methods are called  *)
(* but not part of the class text: each is a call that returns a list of    *)
(* candidates or raises.  rankRecommendations and generateWorkoutReasoning  *)
(* follow the Blender of the specification.                                 *)

\* the sources in the order lines 485-495 call them
Sources == <<"collaborative", "content", "ai-generated">>

\* every source given the weight of the first two
SourceWeightEqual(source) == 4

\* the weight lines 499-501 attach, in tenths
SourceWeight(source) ==
    CASE source = "collaborative" -> 4
      [] source = "content"       -> 4
      [] source = "ai-generated"  -> 2

\* list.map(r => ({ ...r, source, weight }))
Tag(list, source) ==
    [i \in 1..Len(list) |->
        [id |-> list[i].id, score |-> list[i].score, source |-> source,
         weight |-> SourceWeight(source)]]

\* allRecommendations (lines 498-502)
AllRecommendations(lists) ==
    Tag(lists["collaborative"], "collaborative")
    \o Tag(lists["content"], "content")
    \o Tag(lists["ai-generated"], "ai-generated")

\* the Blender's score of a tagged candidate, in thousandths
BlendScore(c) == c.weight * c.score

\* the Blender's source priority: a smaller number ranks first on a tie
SourcePriority(source) ==
    CASE source = "collaborative" -> 1
      [] source = "content"       -> 2
      [] source = "ai-generated"  -> 3

\* a ranks strictly before b
Outranks(a, b) ==
    \/ BlendScore(a) > BlendScore(b)
    \/ /\ BlendScore(a) = BlendScore(b)
       /\ SourcePriority(a.source) < SourcePriority(b.source)

RECURSIVE InsertRanked(_, _)
\* c put into the ranked list after everything it does not outrank
InsertRanked(c, ranked) ==
    IF ranked = <<>> THEN <<c>>
    ELSE IF Outranks(c, Head(ranked)) THEN <<c>> \o ranked
         ELSE <<Head(ranked)>> \o InsertRanked(c, Tail(ranked))

RECURSIVE RankInto(_, _)
RankInto(rest, ranked) ==
    IF rest = <<>> THEN ranked
    ELSE RankInto(Tail(rest), InsertRanked(Head(rest), ranked))

\* rankRecommendations(allRecommendations, userProfile): a stable sort
RankRecommendations(all) == RankInto(all, <<>>)

\* options.count: not given (None), or the count a caller asks for
Counts == {None} \cup {Some(n) : n \in {0, 1, 3, 6}}

\* const { count = 5 } = options
DefaultCount == 5
CountOf(count) == IF count = None THEN DefaultCount ELSE count[1]

\* one item more than asked for
SliceOneMore(list, count) ==
    SubSeq(list, 1, IF count + 1 < Len(list) THEN count + 1 ELSE Len(list))

\* Array.prototype.slice(0, count) for a count >= 0
Slice(list, count) ==
    SubSeq(list, 1, IF count < Len(list) THEN count ELSE Len(list))

\* generateWorkoutReasoning(userProfile, rankedRecommendations)
GenerateWorkoutReasoning(ranked) ==
    IF ranked = <<>> THEN "No workout matches your profile yet."
    ELSE "Selected to match your goals and fitness level."

\* what a source call can return
CandidateLists(source) ==
    CASE source = "collaborative" ->
            {<<>>, <<[id |-> "A", score |-> 90]>>,
             <<[id |-> "A", score |-> 90], [id |-> "A2", score |-> 95]>>}
      [] source = "content" ->
            {<<>>, <<[id |-> "B", score |-> 95]>>,
             <<[id |-> "B", score |-> 90], [id |-> "B2", score |-> 90]>>}
      [] source = "ai-generated" ->
            {<<>>, <<[id |-> "C", score |-> 99]>>,
             <<[id |-> "C", score |-> 100], [id |-> "C2", score |-> 100],
               [id |-> "C3", score |-> 50]>>}

\* the source awaited after this one returned; after the last, the ranking
\* starts without the third source
AfterSourceSkipsLast(source) ==
    CASE source = "collaborative" -> "content"
      [] source = "content"       -> "rank"
      [] source = "ai-generated"  -> "rank"

\* the source awaited after this one returned (lines 485, 488, 495); after
\* the last, the ranking (505)
AfterSource(source) ==
    CASE source = "collaborative" -> "content"
      [] source = "content"       -> "ai-generated"
      [] source = "ai-generated"  -> "rank"

GenIdle == [pc |-> "idle"]

mainVars == <<now, ticks, openai, userProfiles, users, biometrics, reqs, out,
              prevBuild, invalidated, track, nut, trend, fit, auth, overtaken>>

\* generateWorkoutRecommendations(userProfile, options) is called: line 482,
\* and the first source is awaited
CallWorkout(count) ==
    /\ gen.pc = "idle"
    /\ gen' = [kind   |-> "workout",
               pc     |-> Sources[1],
               count  |-> count,
               status |-> [src \in {Sources[i] : i \in 1..Len(Sources)} |-> "pending"],
               lists  |-> [src \in {Sources[i] : i \in 1..Len(Sources)} |-> <<>>],
               all    |-> <<>>,
               ranked |-> None,
               result |-> None]
    /\ UNCHANGED mainVars

\* the catch of lines 513-516
WorkoutFailed ==
    [recommendations |-> <<>>,
     reasoning |-> "Unable to generate recommendations at this time."]

\* the awaited source returns list, or raises (raised = TRUE) and the catch
\* answers
SourceSettles(list, raised) ==
    /\ gen.pc \in {Sources[i] : i \in 1..Len(Sources)}
    /\ list \in CandidateLists(gen.pc)
    /\ IF raised
       THEN gen' = [gen EXCEPT !.status[gen.pc] = "raised",
                               !.pc = "done",
                               !.result = Some(WorkoutFailed)]
       ELSE LET lists == [gen.lists EXCEPT ![gen.pc] = list]
                next  == AfterSource(gen.pc)
            IN gen' = [gen EXCEPT !.status[gen.pc] = "returned",
                                  !.lists = lists,
                                  !.pc = next,
                                  !.all = IF next = "rank"
                                          THEN AllRecommendations(lists) ELSE <<>>]
    /\ UNCHANGED mainVars

\* rankRecommendations returns and lines 507-511 build the result, or one
\* of the helpers raises and the catch answers
RankSettles(outcome) ==
    /\ gen.pc = "rank"
    /\ IF outcome = "raise"
       THEN gen' = [gen EXCEPT !.pc = "done", !.result = Some(WorkoutFailed)]
       ELSE LET ranked == RankRecommendations(gen.all)
            IN gen' = [gen EXCEPT
                        !.pc = "done",
                        !.ranked = Some(ranked),
                        !.result = Some([recommendations |-> Slice(ranked, CountOf(gen.count)),
                                         reasoning |-> GenerateWorkoutReasoning(ranked)])]
    /\ UNCHANGED mainVars

----------------------------------------------------------------------------
(* The mindfulness generator: generateMindfulnessRecommendations.  Lines    *)
(* 560-580 run without an await; the helpers they call are not part of the  *)
(* class text: each returns its list of activities or raises.               *)

\* calculateStressLevel / calculateSleepQuality: a level on the 1-5 scale
Levels == {2, 4}

\* what the activity helpers return: nothing, or their activities
StressReductionActivities == <<"breathing", "walk", "journal">>
SleepImprovementTips == <<"no-screens", "cool-room", "fixed-bedtime">>
MoodLists == {<<>>, <<"gratitude", "music">>}
MeditationLists == {<<>>, <<"body-scan", "loving-kindness">>}
AiMindfulnessLists == {<<>>, <<"custom-plan", "custom-breathing">>}

\* lines 564-580: the list before the generative part
MindfulnessRules(stressLevel, sleepQuality, mood, meditation) ==
    (IF stressLevel > 3 THEN StressReductionActivities ELSE <<>>)
    \o (IF sleepQuality < 3 THEN SleepImprovementTips ELSE <<>>)
    \o mood
    \o meditation

\* recommendations.slice(0, 8)
MindfulnessCount == 8

\* the object of lines 588-594
MindfulnessResult(recommendations, stressLevel, sleepQuality) ==
    [recommendations |-> Slice(recommendations, MindfulnessCount),
     stressLevel     |-> stressLevel,
     sleepQuality    |-> sleepQuality,
     focusAreas      |-> <<"stress", "sleep">>,
     dailyPractices  |-> <<"morning-breathing">>]

\* the catch of lines 596-599
MindfulnessFailed ==
    [recommendations |-> <<>>, focusAreas |-> <<"general-wellness">>]

\* generateMindfulnessRecommendations(userProfile) is called: lines 560-586
\* up to the await of the generative part, or to the return when this.openai
\* is not set; a helper that raises ends in the catch
CallMindfulness(stressLevel, sleepQuality, mood, meditation, raised) ==
    /\ gen.pc = "idle"
    /\ LET rules == MindfulnessRules(stressLevel, sleepQuality, mood, meditation)
           call  == [kind |-> "mindfulness", pc |-> "done",
                     stressLevel |-> stressLevel, sleepQuality |-> sleepQuality,
                     all |-> rules, result |-> None]
       IN IF raised
          THEN gen' = [call EXCEPT !.result = Some(MindfulnessFailed)]
          ELSE IF openai
          THEN gen' = [call EXCEPT !.pc = "ai-mindfulness"]
          ELSE gen' = [call EXCEPT !.result =
                          Some(MindfulnessResult(rules, stressLevel, sleepQuality))]
    /\ UNCHANGED mainVars

\* generateAIMindfulnessRecommendations returns list (line 584-585) and the
\* result is built, or it raises and the catch answers
AiMindfulnessSettles(list, raised) ==
    /\ gen.pc = "ai-mindfulness"
    /\ IF raised
       THEN gen' = [gen EXCEPT !.pc = "done", !.result = Some(MindfulnessFailed)]
       ELSE LET all == gen.all \o list
            IN gen' = [gen EXCEPT
                        !.pc = "done",
                        !.all = all,
                        !.result = Some(MindfulnessResult(all, gen.stressLevel,
                                                          gen.sleepQuality))]
    /\ UNCHANGED mainVars

InitGenerators ==
    /\ InitMain
    /\ track = {}
    /\ nut = NutOff
    /\ trend = TrendOff /\ fit = FitOff /\ auth = AuthOff /\ overtaken = NoneOvertaken
    /\ gen = GenIdle

NextGenerators ==
    \/ \E count \in Counts : CallWorkout(count)
    \/ \E src \in {Sources[i] : i \in 1..Len(Sources)} :
          \E list \in CandidateLists(src), raised \in BOOLEAN : SourceSettles(list, raised)
    \/ \E outcome \in {"ok", "raise"} : RankSettles(outcome)
    \/ \E stressLevel \in Levels, sleepQuality \in Levels, mood \in MoodLists,
          meditation \in MeditationLists, raised \in BOOLEAN :
          CallMindfulness(stressLevel, sleepQuality, mood, meditation, raised)
    \/ \E list \in AiMindfulnessLists, raised \in BOOLEAN : AiMindfulnessSettles(list, raised)

SpecGenerators == InitGenerators /\ [][NextGenerators]_vars

----------------------------------------------------------------------------
(* Properties of the category generators (SpecGenerators)                   *)

SourceSet == {Sources[i] : i \in 1..Len(Sources)}

\* the ids of a list of candidates
Ids(list) == {list[i].id : i \in 1..Len(list)}

\* the candidates the sources that returned have produced
Survivors == UNION {Ids(gen.lists[src]) : src \in {x \in SourceSet : gen.status[x] = "returned"}}

\* a workout generation has ended
WorkoutDone == gen.pc = "done" /\ gen.kind = "workout"

\* the number of workouts asked for
Asked == IF gen.count = None THEN 5 ELSE gen.count[1]

\* C12: the three workout sources fail independently: when a source raises,
\* the result still holds the candidates of the sources that returned (as
\* many of them as the count allows) and only those.
C12_SourcesFailIndependently ==
    (WorkoutDone /\ \E src \in SourceSet : gen.status[src] = "raised")
    => /\ Ids(gen.result[1].recommendations) \subseteq Survivors
       /\ Len(gen.result[1].recommendations) =
             IF Asked < Cardinality(Survivors) THEN Asked ELSE Cardinality(Survivors)

\* C14: the ranking of the workout candidates starts only when each of the
\* three sources has returned or failed: none is pending while the ranking
\* runs or after it has run.
C14_BlendAfterAllSources ==
    (gen.pc \in {"rank", "done"} /\ gen.kind = "workout"
     /\ (gen.pc = "rank" \/ gen.ranked # None))
    => \A src \in SourceSet : gen.status[src] \in {"returned", "raised"}

\* the ranking is running on candidates of all three sources
C14_Witness ==
    /\ gen.pc = "rank"
    /\ \A src \in SourceSet : gen.lists[src] # <<>>

\* the blend score of the claim, in thousandths: weight 0.4 for the
\* similarity (collaborative) and rule (content) sources, 0.2 for the
\* generative one
ClaimScore(c) ==
    (CASE c.source = "collaborative" -> 4
       [] c.source = "content"       -> 4
       [] c.source = "ai-generated"  -> 2) * c.score

\* similarity > rule > generative
ClaimPriority(c) ==
    CASE c.source = "collaborative" -> 1
      [] c.source = "content"       -> 2
      [] c.source = "ai-generated"  -> 3

\* the position at which the candidate was put into the concatenated list
Inserted(c) == CHOOSE i \in 1..Len(gen.all) : gen.all[i].id = c.id

NoCandidates ==
    /\ gen.pc = "done"
    /\ IF gen.kind = "workout" THEN \A src \in SourceSet : gen.lists[src] = <<>>
       ELSE gen.all = <<>>

\* C16: when no source produces a candidate for a category (workout or
\* mindfulness), the result of the category has an empty recommendations
\* list and a non-empty reasoning string.
C16_EmptyWithReasoning ==
    NoCandidates
    => /\ gen.result # None
       /\ gen.result[1].recommendations = <<>>
       /\ "reasoning" \in DOMAIN gen.result[1]
       /\ gen.result[1].reasoning # ""

\* the full ranked list of the category, when the generation built one
FullList ==
    IF gen.kind = "workout" THEN (IF gen.ranked = None THEN <<>> ELSE gen.ranked[1])
    ELSE gen.all

\* C17: the list returned for a category has at most the requested number
\* of items (options.count workouts, 5 when no count is given; 8
\* mindfulness items) and is a prefix of the full ranked list.
C17_TruncatedToCount ==
    gen.pc = "done"
    => LET recs  == gen.result[1].recommendations
           limit == IF gen.kind = "workout" THEN Asked ELSE 8
       IN /\ Len(recs) <= limit
          /\ Len(recs) <= Len(FullList)
          /\ \A i \in 1..Len(recs) : recs[i] = FullList[i]

\* a ranked list longer than the default count was cut to 5 workouts
C17_Witness ==
    /\ gen.pc = "done"
    /\ gen.kind = "workout"
    /\ gen.count = None
    /\ gen.ranked # None
    /\ Len(gen.ranked[1]) > 5
    /\ Len(gen.result[1].recommendations) = 5

----------------------------------------------------------------------------
(* The nutrition generator step by step: the handler stops at the await of *)
(* the chat completion and goes on only when that call settles              *)

NoAnswer == [kind |-> "pending", calories |-> 0]

InitGenerative ==
    /\ InitMain
    /\ track = {}
    /\ gen = GenOff
    /\ trend = TrendOff /\ fit = FitOff /\ auth = AuthOff /\ overtaken = NoneOvertaken
    /\ \E p \in NutProfiles :
          nut = [phase |-> "input", profile |-> p, ai |-> NoAnswer, result |-> None]

nutFrame == <<now, ticks, openai, userProfiles, users, biometrics, reqs,
              out, prevBuild, invalidated, track, gen, trend, fit, auth, overtaken>>

\* generateNutritionRecommendations lines 520-528: without a client the
\* fallback is returned at once; with one the prompt is built and
\* chat.completions.create is awaited, with no timer raced against it
CallNutrition ==
    /\ nut.phase = "input"
    /\ IF ~openai
       THEN nut' = [nut EXCEPT !.phase = "done",
                               !.result = Some(GenerateNutritionRecommendations(
                                                   nut.profile, FALSE, nut.ai))]
       ELSE nut' = [nut EXCEPT !.phase = "completion"]
    /\ UNCHANGED nutFrame

\* the awaited call of lines 528-542 settles: the service answered, or the
\* client raised
CompletionSettles(ai) ==
    /\ nut.phase = "completion"
    /\ nut' = [nut EXCEPT !.phase = "settled", !.ai = ai]
    /\ UNCHANGED nutFrame

\* lines 544-554: the answer is parsed and enhanced, or the catch returns
\* the fallback
NutritionResumes ==
    /\ nut.phase = "settled"
    /\ nut' = [nut EXCEPT !.phase = "done",
                          !.result = Some(GenerateNutritionRecommendations(
                                              nut.profile, TRUE, nut.ai))]
    /\ UNCHANGED nutFrame

NextGenerative ==
    \/ CallNutrition
    \/ \E ai \in AiOutcomes : CompletionSettles(ai)
    \/ NutritionResumes

\* the handler's own steps are always taken; nothing obliges the service to
\* answer
SpecGenerative ==
    /\ InitGenerative
    /\ [][NextGenerative]_vars
    /\ WF_vars(CallNutrition)
    /\ WF_vars(NutritionResumes)

\* C13: a nutrition request always returns in the end, also when the
\* generative service never answers
C13_GenerativeCallBounded == <>(nut.phase = "done")

----------------------------------------------------------------------------
(* The trend analyzer: calculateTrend and analyzeHealthTrends               *)

\* values are held in hundredths: 7050 is 70.5
Scale == 10 * 10

\* a JS number that is a fraction num/den (den > 0), or NaN
Num(num, den) == [nan |-> FALSE, num |-> num, den |-> den]
NaN == [nan |-> TRUE, num |-> 0, den |-> 1]

\* the values of a sequence: Some(v) is the number v / Scale, None undefined
Defined(values) == \A i \in 1..Len(values) : values[i] # None

\* line 745 on slope = num / (den * Scale): a slope is a direction only
\* outside the band [-0.1, 0.1]; the variant has no band
DirectionOfNoBand(num, den) ==
    IF num > 0 THEN "increasing"
    ELSE IF num < 0 THEN "decreasing"
    ELSE "stable"

DirectionOf(num, den) ==
    IF 10 * num > den * Scale THEN "increasing"
    ELSE IF 10 * num < 0 - den * Scale THEN "decreasing"
    ELSE "stable"

\* line 746: Math.min(Math.abs(slope) * 10, 5)
StrengthOf(num, den) ==
    IF 10 * Abs(num) >= 5 * den * Scale THEN Num(5, 1)
    ELSE Num(10 * Abs(num), den * Scale)

\* calculateTrend(values), lines 731-749. An undefined value makes sumY,
\* hence the slope, NaN: both comparisons of line 745 are then false and
\* Math.min(NaN, 5) is NaN
CalculateTrend(values) ==
    IF Len(values) < 2
    THEN [direction |-> "stable", strength |-> Num(0, 1), slope |-> None]
    ELSE IF ~Defined(values)
    THEN [direction |-> "stable", strength |-> NaN, slope |-> Some(NaN)]
    ELSE LET n == Len(values)
             \* x is 0 .. n-1 (line 735); position i of a sequence is x = i - 1
             sumX == SumSeq([i \in 1..n |-> i - 1])
             sumY == SumSeq([i \in 1..n |-> values[i][1]])
             sumXY == SumSeq([i \in 1..n |-> (i - 1) * values[i][1]])
             sumXX == SumSeq([i \in 1..n |-> (i - 1) * (i - 1)])
             num == n * sumXY - sumX * sumY
             den == n * sumXX - sumX * sumX
         IN [direction |-> DirectionOf(num, den),
             strength  |-> StrengthOf(num, den),
             slope     |-> Some(Num(num, den * Scale))]

\* a biometric sample: weight.object says that bodyComposition.weight is an
\* object (a hydrated document always has one, its unit defaulting to 'kg',
\* part_003 lines 58-62), weight.value, steps and duration are the numbers
\* or None when the field is not set
Sample(timestamp, object, value, steps, duration) ==
    [timestamp |-> timestamp,
     weight |-> [object |-> object, value |-> value],
     steps |-> steps, duration |-> duration]

\* the filters of lines 697, 706 and 715: the weight filter tests the
\* weight object, the others the number itself, and 0 is falsy
Passes(d, family) ==
    CASE family = "weight"   -> d.weight.object
      [] family = "activity" -> d.steps # None /\ d.steps # Some(0)
      [] family = "sleep"    -> d.duration # None /\ d.duration # Some(0)

\* the mapped value of lines 701, 710 and 719
ValueOf(d, family) ==
    CASE family = "weight"   -> d.weight.value
      [] family = "activity" -> d.steps
      [] family = "sleep"    -> d.duration

\* Array.prototype.sort by (a, b) => a.timestamp - b.timestamp, stable
RECURSIVE InsertByTimestamp(_, _)
InsertByTimestamp(d, sorted) ==
    IF sorted = <<>> THEN <<d>>
    ELSE IF d.timestamp < Head(sorted).timestamp THEN <<d>> \o sorted
    ELSE <<Head(sorted)>> \o InsertByTimestamp(d, Tail(sorted))

RECURSIVE SortByTimestamp(_)
SortByTimestamp(data) ==
    IF data = <<>> THEN <<>>
    ELSE LET n == Len(data)
         IN InsertByTimestamp(data[n], SortByTimestamp(SubSeq(data, 1, n - 1)))

Families == {"weight", "activity", "sleep"}

\* the least number of points of a family for a trend (lines 700, 709, 718)
MinPoints == 3

FamilyData(biometricData, family) ==
    LET Keep(d) == Passes(d, family)
    IN SortByTimestamp(SelectSeq(biometricData, Keep))

\* analyzeHealthTrends(userId, biometricData), lines 691-722: the trends
\* object, None for a family that has no key
AnalyzeHealthTrends(biometricData) ==
    [family \in Families |->
        LET data == FamilyData(biometricData, family)
        IN IF Len(data) >= MinPoints
           THEN Some(CalculateTrend([i \in 1..Len(data) |-> ValueOf(data[i], family)]))
           ELSE None]

\* inputs: up to MaxSamples samples as getDataRange returns them, newest
\* first, and sequences of up to MaxValues numbers
MaxSamples == 3
MaxValues == 4

WeightFields == {[object |-> FALSE, value |-> None],
                 [object |-> TRUE, value |-> None],
                 [object |-> TRUE, value |-> Some(7000)],
                 [object |-> TRUE, value |-> Some(7100)]}
StepFields == {None, Some(0), Some(500)}
SleepFields == {None, Some(700)}

\* a sample that carries at most a weight, and a sample of a hydrated
\* document without a weight value that carries steps and sleep
SampleShapes ==
    {[weight |-> w, steps |-> None, duration |-> None] : w \in WeightFields}
    \cup {[weight |-> [object |-> TRUE, value |-> None], steps |-> st,
           duration |-> sl] : st \in StepFields, sl \in SleepFields}

SampleLists ==
    UNION {{[i \in 1..n |-> Sample(0 - i * DayMs, shapes[i].weight.object,
                                   shapes[i].weight.value, shapes[i].steps,
                                   shapes[i].duration)] :
               shapes \in [1..n -> SampleShapes]} : n \in 0..MaxSamples}

Starts == {0, 7000}
Differences == {0, 5, 10, 11, 100}
ValuePool == {0, 5, 7000}

Arithmetic(a, d, n) == [i \in 1..n |-> Some(a + (i - 1) * d)]

ValueLists ==
    {Arithmetic(a, d, n) : a \in Starts, d \in Differences, n \in 0..MaxValues}
    \cup UNION {[1..n -> {Some(v) : v \in ValuePool}] : n \in 0..(MaxValues - 1)}

NoTrends == [family \in Families |-> None]

InitTrends ==
    /\ InitMain
    /\ track = {}
    /\ fit = FitOff
    /\ auth = AuthOff /\ overtaken = NoneOvertaken
    /\ nut = NutOff
    /\ gen = GenOff
    /\ \/ \E data \in SampleLists :
             trend = [phase |-> "samples", biometricData |-> data,
                      values |-> <<>>, trends |-> NoTrends, result |-> None]
       \/ \E values \in ValueLists :
             trend = [phase |-> "values", biometricData |-> <<>>,
                      values |-> values, trends |-> NoTrends, result |-> None]

trendFrame == <<now, ticks, openai, userProfiles, users, biometrics, reqs,
                out, prevBuild, invalidated, track, nut, gen, fit, auth, overtaken>>

\* buildUserProfile line 448: analyzeHealthTrends runs on the samples and
\* its result becomes the profile's healthTrends (line 460)
AnalyzeTrends ==
    /\ trend.phase = "samples"
    /\ trend' = [trend EXCEPT !.phase = "analyzed",
                              !.trends = AnalyzeHealthTrends(trend.biometricData)]
    /\ UNCHANGED trendFrame

\* calculateTrend runs on a sequence of numbers
CalculateValues ==
    /\ trend.phase = "values"
    /\ trend' = [trend EXCEPT !.phase = "calculated",
                              !.result = Some(CalculateTrend(trend.values))]
    /\ UNCHANGED trendFrame

NextTrends == AnalyzeTrends \/ CalculateValues

SpecTrends == InitTrends /\ [][NextTrends]_vars

----------------------------------------------------------------------------
(* Properties of the trend analyzer (SpecTrends)                            *)

\* the samples that carry a number of the family
Points(biometricData, family) ==
    Cardinality({i \in 1..Len(biometricData) :
                    ValueOf(biometricData[i], family) # None})

\* C18: after analyzeHealthTrends, a family with fewer than 3 samples in
\* the window has no trend in the result
C18_NoTrendBelowThreePoints ==
    trend.phase = "analyzed" =>
        \A family \in Families :
            Points(trend.biometricData, family) < 3 => trend.trends[family] = None

\* a number within [0, 5]
InZeroFive(x) == ~x.nan /\ x.num >= 0 /\ x.num <= 5 * x.den

\* C19: the strength calculateTrend returns for a sequence of numbers lies
\* in [0, 5], and so does every strength of the healthTrends
C19_StrengthClamped ==
    /\ trend.phase = "calculated" => InZeroFive(trend.result[1].strength)
    /\ trend.phase = "analyzed" =>
          \A family \in Families :
              trend.trends[family] # None => InZeroFive(trend.trends[family][1].strength)

\* the sequence has at least 2 values and every step is the difference d
IsArithmetic(values, d) ==
    /\ Len(values) >= 2
    /\ \A i \in 1..(Len(values) - 1) : values[i + 1][1] - values[i][1] = d

IsConstant(values) ==
    \A i \in 1..Len(values) : values[i] = values[1]

Positive(x) == ~x.nan /\ x.num > 0
IsZero(x) == ~x.nan /\ x.num = 0

ConstantReportsStable ==
    IsConstant(trend.values) =>
        /\ trend.result[1].direction = "stable"
        /\ IsZero(trend.result[1].strength)

\* C20 as stated: every strictly increasing arithmetic sequence of at least
\* 2 values is reported increasing with a positive strength, every constant
\* sequence stable with strength 0
C20_AnyIncreasingArithmetic ==
    trend.phase = "calculated" =>
        /\ \A d \in Differences :
              (d > 0 /\ IsArithmetic(trend.values, d)) =>
                  /\ trend.result[1].direction = "increasing"
                  /\ Positive(trend.result[1].strength)
        /\ ConstantReportsStable

\* C20 amended: an arithmetic sequence of at least 2 values is reported
\* increasing when its difference is above 0.1 and stable when the
\* difference is positive but at most 0.1, with strength min(10 d, 5) > 0 in
\* both cases; a constant sequence is reported stable with strength 0
C20_IncreasingAboveBand ==
    trend.phase = "calculated" =>
        /\ \A d \in Differences :
              (d > 0 /\ IsArithmetic(trend.values, d)) =>
                  /\ trend.result[1].direction =
                        IF 10 * d > Scale THEN "increasing" ELSE "stable"
                  /\ Positive(trend.result[1].strength)
                  /\ IF 10 * d >= 5 * Scale
                     THEN trend.result[1].strength.num =
                              5 * trend.result[1].strength.den
                     ELSE trend.result[1].strength.num * Scale =
                              10 * d * trend.result[1].strength.den
        /\ ConstantReportsStable

\* calculateTrend has run on an arithmetic sequence whose difference lies
\* inside the band
C20_Witness ==
    /\ trend.phase = "calculated"
    /\ IsArithmetic(trend.values, 5)
    /\ trend.result[1].direction = "stable"
    /\ Positive(trend.result[1].strength)

----------------------------------------------------------------------------
(* The profile calculators: calculateFitnessLevel and the nutrition        *)
(* fallback on two profiles                                                 *)

\* the activityLevels table of lines 648-654, || 2 for any other level
ActivityRank(activityLevel) ==
    CASE activityLevel = "sedentary"         -> 1
      [] activityLevel = "lightly-active"    -> 2
      [] activityLevel = "moderately-active" -> 3
      [] activityLevel = "very-active"       -> 4
      [] activityLevel = "extremely-active"  -> 5
      [] OTHER                               -> 2

\* a sample as calculateFitnessLevel reads it: steps is activity.steps or
\* None, hrv.object says that stress.hrv is an object (a hydrated document
\* always has one, its unit defaulting to 'ms', part_003 lines 120-123),
\* hrv.value is stress.hrv.value or None
FitSample(steps, object, value) ==
    [steps |-> steps, hrv |-> [object |-> object, value |-> value]]

\* the filter of line 660: activity.steps is truthy
HasSteps(d) == d.steps # None /\ d.steps # Some(0)

\* the filter of line 672: stress.hrv is truthy (the object, not its value)
HrvKept(d) == d.hrv.object

\* lines 662-667: the bucket of the average of the steps of the kept samples
StepsBucket(recentActivity) ==
    LET n   == Len(recentActivity)
        sum == SumSeq([i \in 1..n |-> recentActivity[i].steps[1]])
    IN IF sum > 10000 * n THEN 5
       ELSE IF sum > 7500 * n THEN 4
       ELSE IF sum > 5000 * n THEN 3
       ELSE IF sum > 2500 * n THEN 2
       ELSE 1

\* lines 674-678: an undefined value makes the average NaN, every
\* comparison false and the bucket 2
HrvBucket(hrvData) ==
    LET n == Len(hrvData)
    IN IF \E i \in 1..n : hrvData[i].hrv.value = None THEN 2
       ELSE LET sum == SumSeq([i \in 1..n |-> hrvData[i].hrv.value[1]])
            IN IF sum > 50 * n THEN 5
               ELSE IF sum > 35 * n THEN 4
               ELSE IF sum > 25 * n THEN 3
               ELSE 2

\* lines 682-687 on finalScore = score / factors (factors is never 0)
LevelOf(score, factors) ==
    IF 2 * score >= 9 * factors THEN "advanced"
    ELSE IF 2 * score >= 7 * factors THEN "intermediate"
    ELSE IF 2 * score >= 5 * factors THEN "beginner-plus"
    ELSE "beginner"

\* the factors calculateFitnessLevel adds up, lines 644-680: a sequence of
\* <<name, bucket>>
FitnessFactors(activityLevel, biometricData) ==
    LET recentActivity == SelectSeq(biometricData, HasSteps)
        hrvData        == SelectSeq(biometricData, HrvKept)
    IN <<  <<"activity-level", ActivityRank(activityLevel)>>  >>
       \o (IF Len(recentActivity) > 0
           THEN << <<"steps", StepsBucket(recentActivity)>> >> ELSE <<>>)
       \o (IF Len(hrvData) > 0
           THEN << <<"hrv", HrvBucket(hrvData)>> >> ELSE <<>>)

\* calculateFitnessLevel(user, biometricData), lines 643-688
CalculateFitnessLevel(activityLevel, biometricData) ==
    LET factors == FitnessFactors(activityLevel, biometricData)
        score   == SumSeq([i \in 1..Len(factors) |-> factors[i][2]])
    IN LevelOf(score, Len(factors))

\* inputs: the levels of the schema, up to MaxFitSamples samples
MaxFitSamples == 2
FitSteps == {None, Some(0), Some(3000), Some(12000)}
FitHrv == {[object |-> FALSE, value |-> None],
           [object |-> TRUE, value |-> None],
           [object |-> TRUE, value |-> Some(30)],
           [object |-> TRUE, value |-> Some(60)]}
FitSamples == {FitSample(st, h.object, h.value) : st \in FitSteps, h \in FitHrv}
FitSampleLists == UNION {[1..n -> FitSamples] : n \in 0..MaxFitSamples}

\* two profiles for the fallback: every field the bundle could depend on
PairAges == {30, 45}
PairGenders == {"male", "female"}
PairGoals == {{}, {"weight-loss"}}
PairLevels == {"sedentary", "very-active"}
PairProfiles ==
    {[userId |-> "alice", age |-> a, gender |-> g, goals |-> gs,
      activityLevel |-> l, recentActivity |-> [averageSteps |-> st],
      timestamp |-> 0] :
        a \in PairAges, g \in PairGenders, gs \in PairGoals,
        l \in PairLevels, st \in NutSteps}

InitCalculators ==
    /\ InitMain
    /\ openai = FALSE
    /\ track = {}
    /\ nut = NutOff
    /\ gen = GenOff
    /\ trend = TrendOff
    /\ auth = AuthOff /\ overtaken = NoneOvertaken
    /\ \/ \E l \in NutLevels, data \in FitSampleLists :
             fit = [phase |-> "fitness", activityLevel |-> l,
                    biometricData |-> data, pair |-> <<>>,
                    factors |-> <<>>, result |-> None]
       \/ \E p \in PairProfiles, q \in PairProfiles :
             fit = [phase |-> "pair", activityLevel |-> "sedentary",
                    biometricData |-> <<>>, pair |-> <<p, q>>,
                    factors |-> <<>>, result |-> None]

fitFrame == <<now, ticks, openai, userProfiles, users, biometrics, reqs,
              out, prevBuild, invalidated, track, nut, gen, trend, auth, overtaken>>

\* buildUserProfile line 445: calculateFitnessLevel runs on the user and
\* the samples; factors records what it added up
FitnessLevel ==
    /\ fit.phase = "fitness"
    /\ fit' = [fit EXCEPT
                 !.phase = "fitness-done",
                 !.factors = FitnessFactors(fit.activityLevel, fit.biometricData),
                 !.result = Some(CalculateFitnessLevel(fit.activityLevel,
                                                       fit.biometricData))]
    /\ UNCHANGED fitFrame

\* generateNutritionRecommendations runs on each of the two profiles while
\* this.openai is not set
FallbackPair ==
    /\ fit.phase = "pair"
    /\ fit' = [fit EXCEPT
                 !.phase = "pair-done",
                 !.result = Some([i \in 1..2 |->
                               GenerateNutritionRecommendations(fit.pair[i], openai,
                                                                NoAnswer)])]
    /\ UNCHANGED fitFrame

NextCalculators == FitnessLevel \/ FallbackPair

SpecCalculators == InitCalculators /\ [][NextCalculators]_vars

----------------------------------------------------------------------------
(* Properties of the profile calculators (SpecCalculators)                  *)

\* a sample carries a heart-rate-variability number
HasHrv(d) == d.hrv.value # None

\* the factors that have data: the rank always, the step bucket when some
\* sample has steps, the HRV bucket when some sample has an HRV number
FactorsWithData(activityLevel, biometricData) ==
    LET recentActivity == SelectSeq(biometricData, HasSteps)
        hrvData        == SelectSeq(biometricData, HasHrv)
    IN <<ActivityRank(activityLevel)>>
       \o (IF Len(recentActivity) > 0 THEN <<StepsBucket(recentActivity)>> ELSE <<>>)
       \o (IF Len(hrvData) > 0 THEN <<HrvBucket(hrvData)>> ELSE <<>>)

Counted(name) == \E i \in 1..Len(fit.factors) : fit.factors[i][1] = name

\* C21: calculateFitnessLevel averages exactly the factors that have data,
\* each within 1..5, and maps the average to the level; a sedentary user
\* with no samples is a beginner
C21_FitnessAveragesPresentFactors ==
    fit.phase = "fitness-done" =>
        LET data == FactorsWithData(fit.activityLevel, fit.biometricData)
        IN /\ \A i \in 1..Len(fit.factors) : fit.factors[i][2] \in 1..5
           /\ Counted("steps") =>
                 \E i \in 1..Len(fit.biometricData) : fit.biometricData[i].steps # None
           /\ Counted("hrv") =>
                 \E i \in 1..Len(fit.biometricData) : HasHrv(fit.biometricData[i])
           /\ fit.result = Some(LevelOf(SumSeq(data), Len(data)))
           /\ (fit.activityLevel = "sedentary" /\ fit.biometricData = <<>>) =>
                 fit.result = Some("beginner")

PairTdee(i) == CalculateTDEE(CalculateBMR(fit.pair[i]), fit.pair[i].activityLevel)

\* C22: with the generative source disabled, two profiles of the same tdee
\* get the same fallback bundle, whatever else differs between them
C22_FallbackFunctionOfTdee ==
    (fit.phase = "pair-done" /\ PairTdee(1) = PairTdee(2)) =>
        fit.result[1][1] = fit.result[1][2]

----------------------------------------------------------------------------
(* Properties of the engine called directly (Spec), continued               *)

\* C23: whatever buildUserProfile and generateRecommendations calls were
\* made, answered or failed, the user documents and the samples are the
\* ones the store started with
C23_EngineLeavesStore ==
    /\ users = InitUsers
    /\ biometrics = InitBiometrics

\* a profile was built and cached, a call has just failed, and the store is
\* as it was
C23_Witness ==
    /\ userProfiles # <<>>
    /\ out.op \in {"build", "generate"}
    /\ out.resp.status = "error"
    /\ users = InitUsers
    /\ biometrics = InitBiometrics

\* C29: a step in which a build fails, called directly or from
\* generateRecommendations, leaves every entry of the profile cache as it
\* was and creates none
C29_FailedBuildLeavesCache ==
    [][out'.resp.status = "error" => userProfiles' = userProfiles]_vars

\* a build has just failed for a user whose cached entry is stale
C29_Witness ==
    /\ out.op = "build"
    /\ out.resp.status = "error"
    /\ out.user \in DOMAIN userProfiles
    /\ ~ProfileFresh(userProfiles[out.user].timestamp, now)

----------------------------------------------------------------------------
(* Properties of the routes (SpecRoutes), continued                         *)

\* C26: a GET answered from the stored bundle (cached = true) never serves
\* a bundle that was built before a preferences update and stored after that
\* update completed
C26_OvertakenBundleNotServed ==
    [][\A id \in KnownUsers :
          (reqs' = reqs /\ out'.op = "get" /\ out'.user = id /\ out'.resp.cached)
              => id \notin overtaken.stored
      ]_vars

----------------------------------------------------------------------------
(* Properties of the typed requests (SpecTypes)                             *)

\* C27: a GET answered from the stored bundle (cached = true) serves every
\* category of the type it asked for
C27_CachedBundleCoversType ==
    [][(reqs' = reqs /\ out'.op = "get" /\ out'.resp.cached)
          => CategoriesOf(out'.type) \subseteq DOMAIN out'.resp.recommendations
      ]_vars

----------------------------------------------------------------------------
(* The rate limiter: rateLimit(maxRequests, windowMs) of the middleware and *)
(* the limiters the account routes create with it                           *)

\* 15 * 60 * 1000, the window of every limiter of routes/auth.js
WindowMs == 15 * 60 * 1000

\* limiters of routes/auth.js, lines 48 and 213 (the one of login, line
\* 125, is created like the one of register): maxRequests
Limiters == {"register", "forgot-password"}
MaxRequests(limiter) == IF limiter = "forgot-password" THEN 3 ELSE 5

\* req.ip of the clients
ClientKeys == {"ip1", "ip2"}

\* the middleware of lines 91-117 on rateLimitStore, the one map declared
\* at module level (line 88) that every limiter closes over, at time t:
\* whether the request goes on to next(), whether a window was started, and
\* the map afterwards
RateLimit(map, key, maxRequests, windowMs, t) ==
    IF key \notin DOMAIN map
    THEN [admitted |-> TRUE, restarted |-> TRUE,
          map |-> CacheSet(map, key, [count |-> 1, resetTime |-> t + windowMs])]
    ELSE IF t > map[key].resetTime
    THEN [admitted |-> TRUE, restarted |-> TRUE,
          map |-> [map EXCEPT ![key] = [count |-> 1, resetTime |-> t + windowMs]]]
    ELSE IF map[key].count >= maxRequests
    THEN [admitted |-> FALSE, restarted |-> FALSE, map |-> map]
    ELSE [admitted |-> TRUE, restarted |-> FALSE,
          map |-> [map EXCEPT ![key].count = @ + 1]]

NoRequest == [limiter |-> "none", key |-> "none", status |-> "none", before |-> 0]

\* auth in the limiter runs: the map, history of how many requests each
\* limiter admitted from each key in the key's current window, and the
\* last request with the number its limiter had admitted before it
InitLimiter ==
    /\ InitMain
    /\ openai = FALSE
    /\ track = {}
    /\ nut = NutOff
    /\ gen = GenOff
    /\ trend = TrendOff
    /\ fit = FitOff
    /\ overtaken = NoneOvertaken
    /\ auth = [phase    |-> "limiter",
               rateLimitStore |-> <<>>,
               admitted |-> [l \in Limiters |-> [k \in ClientKeys |-> 0]],
               last     |-> NoRequest]

authFrame == <<openai, userProfiles, users, biometrics, reqs, out, prevBuild,
               invalidated, track, nut, gen, trend, fit, overtaken>>

\* the steps of the clock in the limiter runs
LimiterDeltas == {WindowMs \div 3, WindowMs + 1}

LimiterTick ==
    /\ auth.phase = "limiter"
    /\ ticks < MaxTicks
    /\ \E d \in LimiterDeltas : now' = now + d
    /\ ticks' = ticks + 1
    /\ auth' = [auth EXCEPT !.last = NoRequest]
    /\ UNCHANGED authFrame

\* a request from key reaches the route guarded by limiter
Limited(limiter, key) ==
    /\ auth.phase = "limiter"
    /\ LET run == RateLimit(auth.rateLimitStore, key,
                            MaxRequests(limiter), WindowMs, now)
       IN auth' = [auth EXCEPT
             !.rateLimitStore = run.map,
             !.admitted = [l \in Limiters |-> [k \in ClientKeys |->
                              IF k # key THEN @[l][k]
                              ELSE (IF run.restarted THEN 0 ELSE @[l][k])
                                   + (IF l = limiter /\ run.admitted THEN 1 ELSE 0)]],
             !.last = [limiter |-> limiter, key |-> key,
                       status |-> IF run.admitted THEN "next" ELSE "429",
                       before |-> IF run.restarted THEN 0
                                  ELSE auth.admitted[limiter][key]]]
    /\ UNCHANGED <<now, ticks>>
    /\ UNCHANGED authFrame

NextLimiter ==
    \/ LimiterTick
    \/ \E limiter \in Limiters, key \in ClientKeys : Limited(limiter, key)

SpecLimiter == InitLimiter /\ [][NextLimiter]_vars

----------------------------------------------------------------------------
(* Properties of the rate limiter (SpecLimiter)                             *)

\* C28: a request is answered 429 exactly when its own limiter had already
\* admitted maxRequests requests from its key in the current window, and a
\* 429 leaves the counts and reset times as they were
C28_LimiterCountsOwnRequests ==
    [][auth'.last.status # "none" =>
          /\ (auth'.last.status = "429")
                <=> (auth'.last.before >= MaxRequests(auth'.last.limiter))
          /\ (auth'.last.status = "429" /\ now' = now)
                => auth'.rateLimitStore = auth.rateLimitStore
      ]_vars

----------------------------------------------------------------------------
(* The account routes of routes/auth.js on one account, with the           *)
(* authenticateToken middleware.  A handler is split where it awaits the   *)
(* store: the step that reads the document and decides, and the step in    *)
(* which its save is applied (a save writes the modified paths only).      *)

\* reset tokens are numbered in the order crypto.randomBytes produced them
MaxResetTokens == 2
ResetTokens == 1..MaxResetTokens

\* the verification token of the one registration, and a token never issued
VerificationToken == "v1"
VerificationTokens == {VerificationToken, "v0"}

Passwords == {"p0", "p1"}

\* the bearer tokens presented: one that jwt.verify accepts for the user,
\* one of the user that has expired
Bearers == {"valid", "expired"}

AuthSlots == {"a1", "a2"}
Earlier(s, other) == s = "a1" /\ other = "a2"

\* the password a reset asks for
NewPassword == "p1"

\* passwordResetExpires = Date.now() + 3600000 (line 234)
ResetTTL == 3600000

\* what the verification email promises (email.js line 42)
VerificationTTL == 24 * Hour

NoAccount ==
    [exists |-> FALSE, isActive |-> TRUE, password |-> "p0",
     isEmailVerified |-> FALSE, emailVerificationToken |-> None,
     passwordResetToken |-> None, passwordResetExpires |-> None]

IdleOp == [op |-> "idle", token |-> 0, password |-> "p0", expires |-> 0]

NoAnswerYet ==
    [op |-> "none", step |-> "none", status |-> "none", token |-> 0,
     message |-> ""]

\* history: when the verification token was issued, which reset token
\* became the account's token last and when, which were used by a completed
\* reset, and whether a deactivation has completed
NoHistory ==
    [verificationIssued |-> None, latest |-> 0, latestIssued |-> None,
     used |-> {}, deactivated |-> FALSE]

InitAuth ==
    /\ InitMain
    /\ openai = FALSE
    /\ track = {}
    /\ nut = NutOff
    /\ gen = GenOff
    /\ trend = TrendOff
    /\ fit = FitOff
    /\ overtaken = NoneOvertaken
    /\ auth = [phase |-> "accounts", account |-> NoAccount,
               ops |-> [s \in AuthSlots |-> IdleOp], nextToken |-> 1,
               history |-> NoHistory, last |-> NoAnswerYet]

AuthDeltas == {Hour \div 2, VerificationTTL}

AuthTick ==
    /\ auth.phase = "accounts"
    /\ ticks < MaxTicks
    /\ \E d \in AuthDeltas : now' = now + d
    /\ ticks' = ticks + 1
    /\ auth' = [auth EXCEPT !.last = NoAnswerYet]
    /\ UNCHANGED authFrame

\* a handler answers
Decided(op, token, status, message) ==
    [auth EXCEPT !.last = [op |-> op, step |-> "decision", status |-> status,
                           token |-> token, message |-> message]]

\* a handler writes the account and answers, with no other request between
\* its read and its save
Done(op, account, history, status) ==
    [auth EXCEPT !.account = account, !.history = history,
                 !.last = [op |-> op, step |-> "decision", status |-> status,
                           token |-> 0, message |-> ""]]

\* the handler in slot s goes on to its save
Pending(s, op, token, password, expires) ==
    [auth EXCEPT
       !.ops[s] = [op |-> op, token |-> token, password |-> password,
                   expires |-> expires],
       !.last = [op |-> op, step |-> "decision", status |-> "pending",
                 token |-> token, message |-> ""]]

\* the save of the handler in slot s went through: the account, the history
Saved(s, account, history, status) ==
    [auth EXCEPT
       !.account = account, !.history = history, !.ops[s] = IdleOp,
       !.last = [op |-> auth.ops[s].op, step |-> "completion",
                 status |-> status, token |-> auth.ops[s].token,
                 message |-> ""]]

\* a request that arrives is handled in the first slot that is free
FirstFree(s) == \A other \in AuthSlots :
                   auth.ops[other].op = "idle" => ~Earlier(other, s)

AuthCall ==
    /\ auth.phase = "accounts"
    /\ UNCHANGED <<now, ticks>>
    /\ UNCHANGED authFrame

AuthStep(s, op) ==
    /\ AuthCall
    /\ auth.ops[s].op = op
    /\ op = "idle" => FirstFree(s)

\* POST /api/auth/register lines 59-81: the email is taken, or the user is
\* saved with a verification token
Register ==
    /\ AuthCall
    /\ auth' = IF auth.account.exists
               THEN Decided("register", 0, "400", "")
               ELSE Done("register",
                         [NoAccount EXCEPT
                             !.exists = TRUE,
                             !.emailVerificationToken = Some(VerificationToken)],
                         [auth.history EXCEPT !.verificationIssued = Some(now)],
                         "201")

\* POST /api/auth/login lines 137-174: the save writes lastActive only
Login(password) ==
    /\ AuthCall
    /\ auth' = IF ~auth.account.exists
               THEN Decided("login", 0, "401", "Invalid credentials")
               ELSE IF ~auth.account.isActive
               THEN Decided("login", 0, "401", "Account is deactivated")
               ELSE IF auth.account.password # password
               THEN Decided("login", 0, "401", "Invalid credentials")
               ELSE Decided("login", 0, "200", "")

\* POST /api/auth/verify-email lines 187-202: the user is found by the
\* token alone
VerifyEmail(token) ==
    /\ AuthCall
    /\ auth' = IF auth.account.exists
                  /\ auth.account.emailVerificationToken = Some(token)
               THEN Done("verify-email",
                         [auth.account EXCEPT !.isEmailVerified = TRUE,
                                              !.emailVerificationToken = None],
                         auth.history, "200")
               ELSE Decided("verify-email", 0, "400", "")

\* POST /api/auth/forgot-password lines 225-234: a token is drawn and set
\* on the loaded document with its expiry
ForgotPassword(s) ==
    /\ AuthStep(s, "idle")
    /\ auth.nextToken \in ResetTokens
    /\ auth' = IF ~auth.account.exists
               THEN Decided("forgot-password", 0, "200", "")
               ELSE [Pending(s, "forgot-password", auth.nextToken, "p0",
                             now + ResetTTL)
                        EXCEPT !.nextToken = @ + 1]

\* line 235: the save makes the token the account's reset token
ForgotSave(s) ==
    /\ AuthStep(s, "forgot-password")
    /\ LET op == auth.ops[s]
       IN auth' = Saved(s, [auth.account EXCEPT
                               !.passwordResetToken = Some(op.token),
                               !.passwordResetExpires = Some(op.expires)],
                        [auth.history EXCEPT
                               !.latest = op.token,
                               !.latestIssued = Some(now)],
                        "200")

\* the query matches on the token alone
ResetMatchesAnyAge(account, token, t) ==
    /\ account.exists
    /\ account.passwordResetToken = Some(token)

\* the query of lines 275-278: passwordResetToken: token,
\* passwordResetExpires: { $gt: Date.now() }
ResetMatches(account, token, t) ==
    /\ account.exists
    /\ account.passwordResetToken = Some(token)
    /\ account.passwordResetExpires # None
    /\ account.passwordResetExpires[1] > t

\* POST /api/auth/reset-password lines 273-282
ResetPassword(s, token) ==
    /\ AuthStep(s, "idle")
    /\ auth' = IF ResetMatches(auth.account, token, now)
               THEN Pending(s, "reset-password", token, NewPassword, 0)
               ELSE Decided("reset-password", token, "400", "")

\* lines 284-289
ResetSave(s) ==
    /\ AuthStep(s, "reset-password")
    /\ LET op == auth.ops[s]
       IN auth' = Saved(s, [auth.account EXCEPT
                               !.password = op.password,
                               !.passwordResetToken = None,
                               !.passwordResetExpires = None],
                        [auth.history EXCEPT !.used = @ \cup {op.token}],
                        "200")

\* the test of line 17 without the isActive part
RejectsUserIgnoringActive(account) == ~account.exists

\* authenticateToken line 17: !user || !user.isActive
RejectsUser(account) == ~account.exists \/ ~account.isActive

PassedOn == [status |-> "next", message |-> ""]

\* authenticateToken lines 5-33 for a bearer token of the user: PassedOn when
\* the request goes on to its route
AuthenticateToken(account, bearer) ==
    IF bearer = "expired"
    THEN [status |-> "401", message |-> "Token expired"]
    ELSE IF RejectsUser(account)
    THEN [status |-> "401", message |-> "Invalid token or user not found"]
    ELSE PassedOn

\* a request to any route behind authenticateToken other than DELETE
\* /api/auth/account, for example GET /api/auth/me
Authenticated(bearer) ==
    /\ AuthCall
    /\ LET answer == AuthenticateToken(auth.account, bearer)
       IN auth' = IF answer = PassedOn
                  THEN Decided("request", 0, "200", "")
                  ELSE Decided("request", 0, answer.status, answer.message)

\* DELETE /api/auth/account: the middleware, then line 379
DeleteAccount(s, bearer) ==
    /\ AuthStep(s, "idle")
    /\ LET answer == AuthenticateToken(auth.account, bearer)
       IN auth' = IF answer = PassedOn
                  THEN Pending(s, "delete-account", 0, "p0", 0)
                  ELSE Decided("delete-account", 0, answer.status,
                               answer.message)

\* lines 380-383
DeleteSave(s) ==
    /\ AuthStep(s, "delete-account")
    /\ auth' = Saved(s, [auth.account EXCEPT !.isActive = FALSE],
                     [auth.history EXCEPT !.deactivated = TRUE], "200")

NextAuth ==
    \/ AuthTick
    \/ Register
    \/ \E password \in Passwords : Login(password)
    \/ \E token \in VerificationTokens : VerifyEmail(token)
    \/ \E s \in AuthSlots : ForgotPassword(s)
    \/ \E s \in AuthSlots : ForgotSave(s)
    \/ \E s \in AuthSlots, token \in ResetTokens : ResetPassword(s, token)
    \/ \E s \in AuthSlots : ResetSave(s)
    \/ \E bearer \in Bearers : Authenticated(bearer)
    \/ \E s \in AuthSlots, bearer \in Bearers : DeleteAccount(s, bearer)
    \/ \E s \in AuthSlots : DeleteSave(s)

SpecAuth == InitAuth /\ [][NextAuth]_vars

\* C24: POST /api/auth/reset-password goes on to reset the password only
\* for the token that most recently became the user's reset token, less
\* than one hour after it did, and not after a reset with it has completed;
\* a request that is turned away leaves the account as it was.
C24_ResetTokenLatestFreshUnused ==
    [][/\ (auth'.last.op = "reset-password" /\ auth'.last.status = "pending")
          => /\ auth'.last.token = auth.history.latest
             /\ auth'.last.token \notin auth.history.used
             /\ auth.history.latestIssued # None
             /\ now - auth.history.latestIssued[1] < ResetTTL
       /\ (auth'.last.op = "reset-password" /\ auth'.last.status = "400")
          => auth'.account = auth.account]_vars

\* the account's reset token was presented an hour or more after it was
\* issued and turned away, the password as registered
C24_Witness ==
    /\ auth.phase = "accounts"
    /\ auth.last.op = "reset-password"
    /\ auth.last.status = "400"
    /\ auth.account.passwordResetToken = Some(auth.last.token)
    /\ auth.last.token = auth.history.latest
    /\ now - auth.history.latestIssued[1] >= ResetTTL
    /\ auth.account.password = "p0"

\* C25: POST /api/auth/verify-email with the token of a registration that
\* is 24 hours old or older is answered 400 and leaves isEmailVerified as
\* it was.
C25_VerificationLinkExpires ==
    [][(/\ auth'.last.op = "verify-email"
        /\ auth.history.verificationIssued # None
        /\ now - auth.history.verificationIssued[1] >= VerificationTTL)
       => /\ auth'.last.status = "400"
          /\ auth'.account.isEmailVerified = auth.account.isEmailVerified]_vars

\* C30: once a DELETE /api/auth/account has deactivated the account, it
\* stays inactive, and every request that then comes to authenticateToken
\* or to the login route is answered 401.
C30_DeactivatedStaysRejected ==
    [][auth.history.deactivated
       => /\ ~auth'.account.isActive
          /\ (/\ auth'.last.step = "decision"
              /\ auth'.last.op \in {"request", "delete-account", "login"})
             => auth'.last.status = "401"]_vars

\* a bearer token that verifies was turned away because the account is
\* deactivated
C30_Witness ==
    /\ auth.phase = "accounts"
    /\ auth.history.deactivated
    /\ auth.last.op = "request"
    /\ auth.last.status = "401"
    /\ auth.last.message = "Invalid token or user not found"

====
